---- MODULE Spec2Model ----
(***************************************************************************)
(* Takedown: server side of the Codeforces duel platform.                  *)
(*                                                                         *)
(* The model follows the Express controllers (roomController.js,           *)
(* gameController.js) and the socket.io handlers (sockets/index.js).       *)
(* Every handler is an async function: it runs synchronously up to its     *)
(* next await, and each awaited store or judge call takes effect as one    *)
(* atomic step.  A handler in progress is a task: its position (pc) and    *)
(* the local variables it holds (the Room document it loaded, the          *)
(* problems it selected, ...).  One action of the model is one awaited     *)
(* call taking effect followed by the synchronous code up to the next      *)
(* await.  Reads of the immutable users collection (User.findById,         *)
(* populate) are folded into the step that precedes them.                  *)
(*                                                                         *)
(* Mongoose 8 document semantics are modelled as the library implements    *)
(* them: save() writes only the modified paths; a save that replaces an    *)
(* array adds the document version __v to its filter and increments it     *)
(* (VersionError when no document matches); a save that matches no         *)
(* document fails (DocumentNotFoundError); query updates ($pull,           *)
(* $addToSet, updateOne) neither read nor change __v.                      *)
(***************************************************************************)
EXTENDS Integers, Sequences, FiniteSets, TLC

(***************************************************************************)
(* Bounds of the model.                                                    *)
(***************************************************************************)
MaxTasks == 2        \* handlers in progress at the same time
MaxOpsSeq == 7       \* requests in a run of the room, one handler at a time
MaxOpsRoom == 5      \* requests in a run of the room, interleaved handlers
MaxOpsGame == 4      \* requests in a run of the game, interleaved handlers
MaxOpsScore == 5     \* requests in a run of the scoring, interleaved handlers
MaxOpsGrace == 5     \* requests in a run of the room with the process staying up
MaxOpsTeardown == 6  \* requests in a run of a game and its room, one handler at a time
MaxOpsSweep == 5     \* requests in a run of a game up to its sweep, interleaved handlers
MaxRooms == 1        \* rooms created in a run
MaxSubs == 2         \* submissions the judge holds
MaxTicks == 2        \* advances of the clock in a run

(***************************************************************************)
(* Program constants.                                                      *)
(***************************************************************************)
GRACE_PERIOD_GAME == 60000
GRACE_PERIOD_ROOM == 15000
DefaultMinRating == 800
DefaultMaxRating == 1200
SettingsDuration == 15
QuestionCount == 2
NullTime == -1
MsPerMinute == 60000
MsPerSecond == 1000
DecayPerMinute == 5
PacingDelay == 1000
SyncEvery == 5000

Users == {"u1", "u2", "u3"}
Sockets == {"s1", "s2", "s3"}
\* two tabs of the first user and one of the second
Tabs == {"s1", "s4", "s2"}

\* socket.user: the user whose session the socket was authenticated with
SocketUser(s) ==
  CASE s = "s1" -> "u1"
    [] s = "s2" -> "u2"
    [] s = "s3" -> "u3"
    [] s = "s4" -> "u1"

\* user.handle: the Codeforces handle stored for a user id
Handle(u) ==
  CASE u = "u1" -> "alice"
    [] u = "u2" -> "bob"
    [] u = "u3" -> "carol"


(***************************************************************************)
(* The judge (Codeforces): its problem set and the submissions it holds.   *)
(* A problem with no rating carries rating 0, which `p.rating &&` rejects. *)
(***************************************************************************)
JudgeProblems ==
  { [contestId |-> 100, index |-> "A", rating |-> 800],
    [contestId |-> 100, index |-> "C", rating |-> 1200],
    [contestId |-> 101, index |-> "B", rating |-> 1600],
    [contestId |-> 102, index |-> "A", rating |-> 0] }

\* values a request body may carry for minRating / maxRating (0: absent)
RatingInputs == {0, 1200, 1600}

VARIABLES
  rooms,               \* the Room collection (documents, unique by code)
  roomProblems,        \* the RoomProblem collection, rows in insertion order
  scores,              \* the Score collection, rows in insertion order
  nextId,              \* number of Room documents created so far (_id source)
  activeGameRooms,     \* sockets/index.js: rooms that receive timer-sync
  gameTimers,          \* sockets/index.js: roomCode -> armed end timer
  disconnectedPlayers, \* sockets/index.js: userId -> pending grace ticket
  userSockets,         \* sockets/index.js: userId -> connected socket ids
  channel,             \* sockets subscribed to the room's topic
  published,           \* events the last step emitted (fan-out and private)
  now,                 \* wall clock, ms
  judgeSubs,           \* submissions held by the judge
  ticks,               \* advances of the clock so far
  syncDue,             \* sockets/index.js: instant at which the timer-sync interval runs next
  tasks,               \* handlers in progress
  ops                  \* handler invocations so far

vars == << rooms, roomProblems, scores, nextId, activeGameRooms, gameTimers,
           disconnectedPlayers, userSockets, channel, published, now,
           judgeSubs, ticks, syncDue, tasks, ops >>

dbVars == << rooms, roomProblems, scores, nextId >>
hubVars == << activeGameRooms, gameTimers, disconnectedPlayers, userSockets, channel >>
envVars == << now, judgeSubs, ticks, syncDue >>

RoomCode == "K3X9Q0"
NoUser == "none"

\* a Room document that is not there (findOne returned null)
NullRoom ==
  [ id |-> 0, host |-> NoUser, participants |-> << >>,
    minRating |-> 0, maxRating |-> 0, questionCount |-> 0, duration |-> 0,
    status |-> "none", startTime |-> NullTime, v |-> 0 ]

NoTicket == [ armed |-> FALSE, deadline |-> 0, handle |-> "" ]
NoTimer == [ armed |-> FALSE, deadline |-> 0 ]
NoProblem == [ contestId |-> 0, index |-> "", rating |-> 0 ]

TaskIds == 1 .. MaxTasks

Idle ==
  [ kind |-> "idle", pc |-> "idle", user |-> NoUser, sock |-> "",
    room |-> NullRoom, wasHost |-> FALSE, cleanup |-> FALSE,
    problem |-> NoProblem, selected |-> << >>, created |-> {},
    problems |-> << >>, subs |-> {}, i |-> 0, j |-> 0, wake |-> 0,
    points |-> 0, solveTime |-> 0, basePoints |-> 0, minPoints |-> 0,
    minIn |-> 0, maxIn |-> 0, replay |-> FALSE, first |-> << >>,
    leaderboard |-> << >>, loaded |-> NullRoom ]

(***************************************************************************)
(* Sequences as the code uses them.                                        *)
(***************************************************************************)
Range(s) == { s[k] : k \in 1 .. Len(s) }

\* Array.prototype.filter(p => p.toString() !== userId)
Without(s, u) == SelectSeq(s, LAMBDA x : x # u)

\* $addToSet: append unless present
AddToSet(s, u) == IF u \in Range(s) THEN s ELSE Append(s, u)

(***************************************************************************)
(* Events.  Every event is a record of the same shape; a field an event    *)
(* kind does not carry keeps its default.                                  *)
(***************************************************************************)
Ev(type) ==
  [ type |-> type, userId |-> NoUser, handle |-> "", newHost |-> NoUser,
    previousHost |-> "", participants |-> << >>, n |-> 0, to |-> "room",
    contestId |-> 0, index |-> "", points |-> 0, problems |-> << >>,
    startTime |-> NullTime, leaderboard |-> << >>, winner |-> "" ]

EvRoomUpdate(ps) == [ Ev("room-update") EXCEPT !.participants = ps ]
EvPlayerLeft(u, h) == [ Ev("player-left") EXCEPT !.userId = u, !.handle = h ]
EvPlayerReconnected(u, h) == [ Ev("player-reconnected") EXCEPT !.userId = u, !.handle = h ]
EvPlayerDisconnected(u, h, g) ==
  [ Ev("player-disconnected") EXCEPT !.userId = u, !.handle = h, !.n = g ]
EvHostChanged(nh, h) ==
  [ Ev("host-changed") EXCEPT !.newHost = nh, !.handle = Handle(nh), !.previousHost = h ]
EvError(s, n) == [ Ev("error") EXCEPT !.to = s, !.n = n ]
EvTimerSync(serverTime) == [ Ev("timer-sync") EXCEPT !.n = serverTime ]

\* Room.findOne({ code })
FindRoom == IF rooms = {} THEN NullRoom ELSE CHOOSE r \in rooms : TRUE

(***************************************************************************)
(* Tasks.                                                                  *)
(***************************************************************************)
AllIdle == \A t \in TaskIds : tasks[t].pc = "idle"
SomeIdle == \E t \in TaskIds : tasks[t].pc = "idle"
FreeSlot == CHOOSE t \in TaskIds : tasks[t].pc = "idle" /\ \A o \in TaskIds : tasks[o].pc = "idle" => t <= o

\* how requests are admitted: one handler at a time or interleaved with the
\* handlers in progress, and how many requests a run makes
OneAtATime == [ overlap |-> FALSE, maxOps |-> MaxOpsSeq ]
RoomRun == [ overlap |-> TRUE, maxOps |-> MaxOpsRoom ]
GameRun == [ overlap |-> TRUE, maxOps |-> MaxOpsGame ]
ScoreRun == [ overlap |-> TRUE, maxOps |-> MaxOpsScore ]
GraceRun == [ overlap |-> FALSE, maxOps |-> MaxOpsGrace ]
TeardownRun == [ overlap |-> FALSE, maxOps |-> MaxOpsTeardown ]
SweepRun == [ overlap |-> TRUE, maxOps |-> MaxOpsSweep ]

\* a client request may be accepted
CanLaunch(c) == (IF c.overlap THEN SomeIdle ELSE AllIdle) /\ ops < c.maxOps

\* a timer callback may run
CanFire(c) == IF c.overlap THEN SomeIdle ELSE AllIdle

\* an event of the environment (clock, judge) may happen
Quiet(c) == c.overlap \/ AllIdle

\* a handler begins in the first free slot
Begin(rec) == tasks' = [tasks EXCEPT ![FreeSlot] = rec]
Launch(rec) == /\ Begin(rec)
               /\ ops' = ops + 1
Fire(rec) == /\ Begin(rec)
             /\ UNCHANGED ops
Goto(t, rec) == tasks' = [tasks EXCEPT ![t] = rec]
Finish(t) == tasks' = [tasks EXCEPT ![t] = Idle]
At(t, kind, pc) == tasks[t].kind = kind /\ tasks[t].pc = pc

\* the events a step emits
Publish(evs) == published' = evs
\* a step that emits nothing
Silent == published' = {}

(***************************************************************************)
(* The store.                                                              *)
(***************************************************************************)
\* the document with this _id, if it is still stored
Stored(id) == { r \in rooms : r.id = id }

\* deleteMany({ roomId })
DeleteRows(rows, id) == SelectSeq(rows, LAMBDA x : x.roomId # id)

\* find({ roomId })
RowsOf(rows, id) == SelectSeq(rows, LAMBDA x : x.roomId = id)

Init ==
  /\ rooms = {}
  /\ roomProblems = << >>
  /\ scores = << >>
  /\ nextId = 0
  /\ activeGameRooms = {}
  /\ gameTimers = NoTimer
  /\ disconnectedPlayers = [ u \in Users |-> NoTicket ]
  /\ userSockets = [ u \in Users |-> {} ]
  /\ channel = {}
  /\ published = {}
  /\ now = 0
  /\ judgeSubs = {}
  /\ ticks = 0
  /\ syncDue = SyncEvery
  /\ tasks = [ t \in TaskIds |-> Idle ]
  /\ ops = 0


(***************************************************************************)
(* Mongoose document saves.                                                *)
(***************************************************************************)
\* save() of a document whose participants array was replaced: the filter
\* carries _id and __v, the update sets the array and increments __v
ArraySaveMatches(doc) == \E r \in rooms : r.id = doc.id /\ r.v = doc.v
ArraySave(doc, ps) ==
  { IF r.id = doc.id /\ r.v = doc.v
      THEN [r EXCEPT !.participants = ps, !.v = r.v + 1]
      ELSE r : r \in rooms }

(***************************************************************************)
(* Host transfer.                                                          *)
(***************************************************************************)
\* the settings of a stored room
SettingsOf(r) == << r.minRating, r.maxRating, r.questionCount, r.duration >>

\* room.save() of a loaded document: the update carries only the paths whose
\* assigned value differs from the loaded one; settings, a nested path
\* assigned as one object, is written whole or not at all
SaveModified(r, loaded, doc) ==
  LET settingsOf(d) == << d.minRating, d.maxRating, d.questionCount, d.duration >>
      settingsModified == settingsOf(doc) # settingsOf(loaded)
  IN [ r EXCEPT !.status = IF doc.status # loaded.status THEN doc.status ELSE @,
                !.startTime = IF doc.startTime # loaded.startTime THEN doc.startTime ELSE @,
                !.minRating = IF settingsModified THEN doc.minRating ELSE @,
                !.maxRating = IF settingsModified THEN doc.maxRating ELSE @,
                !.questionCount = IF settingsModified THEN doc.questionCount ELSE @,
                !.duration = IF settingsModified THEN doc.duration ELSE @ ]

\* transferHostIfNeeded, its three guards, on the document the caller holds
TransferNeeded(room, leavingUserId) ==
  /\ room.host = leavingUserId
  /\ room.status = "waiting"
  /\ Len(room.participants) # 0

\* room.participants[0]
NewHostId(room) == Head(room.participants)

(***************************************************************************)
(* POST /rooms/create                                                      *)
(***************************************************************************)
createRoom_findOne(c, u, minIn, maxIn) ==
  /\ CanLaunch(c)
  /\ nextId < MaxRooms
  /\ rooms = {}
  /\ Launch([Idle EXCEPT !.kind = "createRoom", !.pc = "save", !.user = u,
                         !.minIn = minIn, !.maxIn = maxIn])
  /\ UNCHANGED << dbVars, hubVars, envVars >> /\ Silent

createRoom_save(t) ==
  /\ At(t, "createRoom", "save")
  /\ IF rooms = {}
       THEN /\ rooms' =
                 { [ id |-> nextId + 1,
                     host |-> tasks[t].user,
                     participants |-> << tasks[t].user >>,
                     minRating |-> IF tasks[t].minIn # 0 THEN tasks[t].minIn ELSE DefaultMinRating,
                     maxRating |-> IF tasks[t].maxIn # 0 THEN tasks[t].maxIn ELSE DefaultMaxRating,
                     questionCount |-> QuestionCount,
                     duration |-> SettingsDuration,
                     status |-> "waiting",
                     startTime |-> NullTime,
                     v |-> 0 ] }
            /\ nextId' = nextId + 1
       ELSE UNCHANGED << rooms, nextId >>
  /\ Finish(t)
  /\ UNCHANGED << roomProblems, scores, hubVars, envVars, ops >> /\ Silent

(***************************************************************************)
(* POST /rooms/:code/join                                                  *)
(***************************************************************************)
joinRoom_findOne(c, u) ==
  /\ CanLaunch(c)
  /\ rooms # {}
  /\ LET room == FindRoom IN
       IF u \in Range(room.participants)
         THEN Launch([Idle EXCEPT !.kind = "joinRoom", !.pc = "populate", !.user = u,
                                 !.room = room])
         ELSE Launch([Idle EXCEPT !.kind = "joinRoom", !.pc = "save", !.user = u,
                                 !.room = [room EXCEPT !.participants = Append(@, u)]])
  /\ UNCHANGED << dbVars, hubVars, envVars >> /\ Silent

\* room.participants.push(userId); room.save(): $push, __v incremented
joinRoom_save(t) ==
  /\ At(t, "joinRoom", "save")
  /\ IF Stored(tasks[t].room.id) # {}
       THEN /\ rooms' = { IF r.id = tasks[t].room.id
                            THEN [r EXCEPT !.participants = Append(@, tasks[t].user), !.v = @ + 1]
                            ELSE r : r \in rooms }
            /\ Goto(t, [tasks[t] EXCEPT !.pc = "populate"])
       ELSE UNCHANGED << rooms >> /\ Finish(t)
  /\ UNCHANGED << roomProblems, scores, nextId, hubVars, envVars, ops >> /\ Silent

\* room.populate('participants') has answered: room-update with the list of
\* the document the handler holds
joinRoom_populate(t) ==
  /\ At(t, "joinRoom", "populate")
  /\ Publish({ EvRoomUpdate(tasks[t].room.participants) })
  /\ Finish(t)
  /\ UNCHANGED << dbVars, hubVars, envVars, ops >>

(***************************************************************************)
(* Cascade delete of an empty room: three awaited deletes, then (socket    *)
(* paths only) the in-memory cleanup.                                      *)
(***************************************************************************)
cascade_deleteRoomProblems(t) ==
  /\ tasks[t].pc = "deleteRoomProblems"
  /\ roomProblems' = DeleteRows(roomProblems, tasks[t].room.id)
  /\ Goto(t, [tasks[t] EXCEPT !.pc = "deleteScores"])
  /\ UNCHANGED << rooms, scores, nextId, hubVars, envVars, ops >> /\ Silent

cascade_deleteScores(t) ==
  /\ tasks[t].pc = "deleteScores"
  /\ scores' = DeleteRows(scores, tasks[t].room.id)
  /\ Goto(t, [tasks[t] EXCEPT !.pc = "deleteRoom"])
  /\ UNCHANGED << rooms, roomProblems, nextId, hubVars, envVars, ops >> /\ Silent

cascade_deleteRoom(t) ==
  /\ tasks[t].pc = "deleteRoom"
  /\ rooms' = rooms \ Stored(tasks[t].room.id)
  /\ IF tasks[t].cleanup
       THEN /\ activeGameRooms' = activeGameRooms \ { RoomCode }
            /\ gameTimers' = NoTimer
       ELSE UNCHANGED << activeGameRooms, gameTimers >>
  /\ Finish(t)
  /\ UNCHANGED << roomProblems, scores, nextId, disconnectedPlayers, userSockets, channel,
                  envVars, ops >>
  /\ Silent

(***************************************************************************)
(* POST /rooms/:code/leave                                                 *)
(***************************************************************************)
leaveRoom_findOne(c, u) ==
  /\ CanLaunch(c)
  /\ rooms # {}
  /\ LET room == FindRoom IN
       Launch([Idle EXCEPT !.kind = "leaveRoom", !.pc = "saveParticipants", !.user = u,
                           !.room = room, !.wasHost = (room.host = u)])
  /\ UNCHANGED << dbVars, hubVars, envVars >> /\ Silent

leaveRoom_saveParticipants(t) ==
  /\ At(t, "leaveRoom", "saveParticipants")
  /\ LET u == tasks[t].user
         doc == tasks[t].room
         ps == Without(doc.participants, u)
         modified == ps # doc.participants
         ok == IF modified THEN ArraySaveMatches(doc) ELSE Stored(doc.id) # {}
         after == [doc EXCEPT !.participants = ps]
     IN /\ rooms' = IF modified /\ ok THEN ArraySave(doc, ps) ELSE rooms
        /\ IF ~ok
             THEN Finish(t) /\ Silent
             ELSE IF Len(ps) = 0
               THEN /\ Goto(t, [tasks[t] EXCEPT !.pc = "deleteRoomProblems", !.room = after])
                    /\ Silent
               ELSE IF tasks[t].wasHost /\ doc.status = "waiting"
                 THEN /\ Goto(t, [tasks[t] EXCEPT !.pc = "saveHost", !.room = after])
                      /\ Silent
                 ELSE /\ Goto(t, [tasks[t] EXCEPT !.pc = "populate", !.room = after])
                      /\ Silent
  /\ UNCHANGED << roomProblems, scores, nextId, hubVars, envVars, ops >>

\* room.host = room.participants[0]; room.save()
leaveRoom_saveHost(t) ==
  /\ At(t, "leaveRoom", "saveHost")
  /\ LET doc == tasks[t].room
     IN IF Stored(doc.id) # {}
          THEN /\ rooms' = { IF r.id = doc.id THEN [r EXCEPT !.host = NewHostId(doc)] ELSE r : r \in rooms }
               /\ Goto(t, [tasks[t] EXCEPT !.pc = "findById"])
          ELSE UNCHANGED << rooms >> /\ Finish(t)
  /\ UNCHANGED << roomProblems, scores, nextId, hubVars, envVars, ops >> /\ Silent

\* User.findById(newHostId) has answered: host-changed
leaveRoom_findById(t) ==
  /\ At(t, "leaveRoom", "findById")
  /\ Publish({ EvHostChanged(NewHostId(tasks[t].room), Handle(tasks[t].user)) })
  /\ Goto(t, [tasks[t] EXCEPT !.pc = "populate"])
  /\ UNCHANGED << dbVars, hubVars, envVars, ops >>

\* room.populate('participants') has answered: room-update with the list of
\* the document the handler holds, then player-left
leaveRoom_populate(t) ==
  /\ At(t, "leaveRoom", "populate")
  /\ Publish({ EvRoomUpdate(tasks[t].room.participants),
               EvPlayerLeft(tasks[t].user, Handle(tasks[t].user)) })
  /\ Finish(t)
  /\ UNCHANGED << dbVars, hubVars, envVars, ops >>

(***************************************************************************)
(* DELETE /rooms/:code                                                     *)
(***************************************************************************)
deleteRoom_findOne(c, u) ==
  /\ CanLaunch(c)
  /\ Launch([Idle EXCEPT !.kind = "deleteRoom", !.pc = "deleteOne", !.user = u,
                         !.room = FindRoom])
  /\ UNCHANGED << dbVars, hubVars, envVars >> /\ Silent

\* 404 without a room, 403 for anybody but the host, else Room.deleteOne({ code })
deleteRoom_deleteOne(t) ==
  /\ At(t, "deleteRoom", "deleteOne")
  /\ IF tasks[t].room.id = 0 \/ tasks[t].room.host # tasks[t].user
       THEN UNCHANGED rooms
       ELSE rooms' = {}
  /\ Finish(t)
  /\ UNCHANGED << roomProblems, scores, nextId, hubVars, envVars, ops >> /\ Silent

(***************************************************************************)
(* Socket sessions.                                                        *)
(***************************************************************************)
Connected(s) == s \in userSockets[SocketUser(s)]

\* io.on('connection'): the socket is registered under its user
on_connection(c, s) ==
  /\ CanLaunch(c)
  /\ ~Connected(s)
  /\ ops' = ops + 1
  /\ userSockets' = [userSockets EXCEPT ![SocketUser(s)] = @ \cup { s }]
  /\ Publish({ [ Ev("connection-success") EXCEPT !.to = s ] })
  /\ UNCHANGED << dbVars, activeGameRooms, gameTimers, disconnectedPlayers, channel,
                  envVars, tasks >>

(***************************************************************************)
(* socket 'join-room'                                                      *)
(***************************************************************************)
on_join_room(c, s) ==
  /\ CanLaunch(c)
  /\ Connected(s)
  /\ LET u == SocketUser(s) IN
       /\ channel' = channel \cup { s }
       /\ IF disconnectedPlayers[u].armed
            THEN /\ disconnectedPlayers' = [disconnectedPlayers EXCEPT ![u] = NoTicket]
                 /\ Publish({ EvPlayerReconnected(u, Handle(u)) })
            ELSE UNCHANGED << disconnectedPlayers >> /\ Silent
       /\ Launch([Idle EXCEPT !.kind = "join-room", !.pc = "findOne", !.user = u, !.sock = s])
  /\ UNCHANGED << dbVars, activeGameRooms, gameTimers, userSockets, envVars >>

on_join_room_findOne(t) ==
  /\ At(t, "join-room", "findOne")
  /\ LET room == FindRoom
         u == tasks[t].user
     IN IF room.id = 0
          THEN /\ channel' = channel \ { tasks[t].sock }
               /\ Publish({ EvError(tasks[t].sock, 404) })
               /\ Finish(t)
          ELSE IF room.status = "started" /\ u \notin Range(room.participants)
            THEN /\ Goto(t, [tasks[t] EXCEPT !.pc = "addToSet", !.room = room])
                 /\ UNCHANGED << channel >> /\ Silent
            ELSE /\ Publish({ EvRoomUpdate(room.participants) })
                 /\ Finish(t)
                 /\ UNCHANGED channel
  /\ UNCHANGED << dbVars, activeGameRooms, gameTimers, disconnectedPlayers, userSockets,
                  envVars, ops >>

\* Room.updateOne({ code }, { $addToSet: { participants } })
on_join_room_addToSet(t) ==
  /\ At(t, "join-room", "addToSet")
  /\ rooms' = { [r EXCEPT !.participants = AddToSet(@, tasks[t].user)] : r \in rooms }
  /\ Goto(t, [tasks[t] EXCEPT !.pc = "reload"])
  /\ UNCHANGED << roomProblems, scores, nextId, hubVars, envVars, ops >> /\ Silent

on_join_room_reload(t) ==
  /\ At(t, "join-room", "reload")
  /\ IF rooms = {}
       THEN Publish({ EvError(tasks[t].sock, 500) })
       ELSE Publish({ EvRoomUpdate(FindRoom.participants) })
  /\ Finish(t)
  /\ UNCHANGED << dbVars, hubVars, envVars, ops >>

(***************************************************************************)
(* socket 'leave-room'                                                     *)
(***************************************************************************)
on_leave_room(c, s) ==
  /\ CanLaunch(c)
  /\ Connected(s)
  /\ channel' = channel \ { s }
  /\ disconnectedPlayers' = [disconnectedPlayers EXCEPT ![SocketUser(s)] = NoTicket]
  /\ Launch([Idle EXCEPT !.kind = "leave-room", !.pc = "findOneAndUpdate",
                         !.user = SocketUser(s), !.sock = s, !.cleanup = TRUE])
  /\ UNCHANGED << dbVars, activeGameRooms, gameTimers, userSockets, envVars >> /\ Silent

\* Room.findOneAndUpdate({ code }, { $pull: { participants } }, { new: true })
on_leave_room_findOneAndUpdate(t) ==
  /\ At(t, "leave-room", "findOneAndUpdate")
  /\ LET u == tasks[t].user
         room == [FindRoom EXCEPT !.participants = Without(@, u)]
     IN IF rooms = {}
          THEN /\ Publish({ EvError(tasks[t].sock, 404) })
               /\ Finish(t)
               /\ UNCHANGED rooms
          ELSE /\ rooms' = { room }
               /\ IF Len(room.participants) = 0
                    THEN /\ Goto(t, [tasks[t] EXCEPT !.pc = "deleteRoomProblems", !.room = room])
                         /\ Silent
                    ELSE IF TransferNeeded(room, u)
                      THEN /\ Goto(t, [tasks[t] EXCEPT !.pc = "updateHost", !.room = room])
                           /\ Silent
                      ELSE /\ Publish({ EvRoomUpdate(room.participants), EvPlayerLeft(u, Handle(u)) })
                           /\ Finish(t)
  /\ UNCHANGED << roomProblems, scores, nextId, hubVars, envVars, ops >>

(***************************************************************************)
(* transferHostIfNeeded, after its guards: Room.updateOne({ code },        *)
(* { host }), then host-changed.  The leave-room handler publishes         *)
(* room-update and player-left after it; the grace expiry has published    *)
(* them before.                                                            *)
(***************************************************************************)
transferHostIfNeeded_updateOne(t) ==
  /\ tasks[t].pc = "updateHost"
  /\ rooms' = { [r EXCEPT !.host = NewHostId(tasks[t].room)] : r \in rooms }
  /\ Goto(t, [tasks[t] EXCEPT !.pc = "findNewHost"])
  /\ UNCHANGED << roomProblems, scores, nextId, hubVars, envVars, ops >> /\ Silent

\* User.findById(newHostId) has answered: host-changed, and the return to the
\* caller (leave-room goes on to emit room-update and player-left)
transferHostIfNeeded_findById(t) ==
  /\ tasks[t].pc = "findNewHost"
  /\ LET u == tasks[t].user
         doc == tasks[t].room
     IN Publish({ EvHostChanged(NewHostId(doc), Handle(u)) }
                \cup IF tasks[t].kind = "leave-room"
                       THEN { EvRoomUpdate(doc.participants), EvPlayerLeft(u, Handle(u)) }
                       ELSE {})
  /\ Finish(t)
  /\ UNCHANGED << dbVars, hubVars, envVars, ops >>

(***************************************************************************)
(* socket 'disconnect'                                                     *)
(***************************************************************************)
\* the handler without the multi-tab return
on_disconnect_anySession(c, s) ==
  /\ CanLaunch(c)
  /\ Connected(s)
  /\ LET u == SocketUser(s) IN
       /\ userSockets' = [userSockets EXCEPT ![u] = @ \ { s }]
       /\ channel' = channel \ { s }
       /\ Launch([Idle EXCEPT !.kind = "disconnect", !.pc = "find", !.user = u,
                              !.sock = s, !.cleanup = TRUE])
  /\ UNCHANGED << dbVars, activeGameRooms, gameTimers, disconnectedPlayers, envVars >> /\ Silent

on_disconnect(c, s) ==
  /\ CanLaunch(c)
  /\ Connected(s)
  /\ LET u == SocketUser(s) IN
       /\ userSockets' = [userSockets EXCEPT ![u] = @ \ { s }]
       /\ channel' = channel \ { s }
       /\ IF userSockets[u] \ { s } # {}
            THEN ops' = ops + 1 /\ UNCHANGED tasks
            ELSE Launch([Idle EXCEPT !.kind = "disconnect", !.pc = "find", !.user = u,
                                     !.sock = s, !.cleanup = TRUE])
  /\ UNCHANGED << dbVars, activeGameRooms, gameTimers, disconnectedPlayers, envVars >> /\ Silent

\* Room.find({ participants: user }), then the loop body for the room found
on_disconnect_find(t) ==
  /\ At(t, "disconnect", "find")
  /\ LET u == tasks[t].user
         room == FindRoom
         ps == Without(room.participants, u)
         gracePeriod == IF room.status = "started" THEN GRACE_PERIOD_GAME ELSE GRACE_PERIOD_ROOM
     IN IF u \notin Range(room.participants)
          THEN /\ Finish(t)
               /\ UNCHANGED << disconnectedPlayers >> /\ Silent
          ELSE IF room.status \in { "started", "waiting" }
            THEN /\ disconnectedPlayers' =
                      [disconnectedPlayers EXCEPT ![u] =
                         [ armed |-> TRUE, deadline |-> now + gracePeriod, handle |-> Handle(u) ]]
                 /\ Publish({ EvPlayerDisconnected(u, Handle(u), gracePeriod \div MsPerSecond) })
                 /\ Finish(t)
            ELSE /\ IF Len(ps) = 0
                      THEN Goto(t, [tasks[t] EXCEPT !.pc = "deleteRoomProblems", !.room = room])
                      ELSE Goto(t, [tasks[t] EXCEPT !.pc = "saveParticipants", !.room = room])
                 /\ UNCHANGED << disconnectedPlayers >> /\ Silent
  /\ UNCHANGED << dbVars, activeGameRooms, gameTimers, userSockets, channel, envVars, ops >>

on_disconnect_saveParticipants(t) ==
  /\ At(t, "disconnect", "saveParticipants")
  /\ LET doc == tasks[t].room
         ps == Without(doc.participants, tasks[t].user)
     IN IF ArraySaveMatches(doc)
          THEN /\ rooms' = ArraySave(doc, ps)
               /\ Goto(t, [tasks[t] EXCEPT !.pc = "populate", !.room.participants = ps])
          ELSE UNCHANGED << rooms >> /\ Finish(t)
  /\ UNCHANGED << roomProblems, scores, nextId, hubVars, envVars, ops >> /\ Silent

\* room.populate('participants') has answered: room-update
on_disconnect_populate(t) ==
  /\ At(t, "disconnect", "populate")
  /\ Publish({ EvRoomUpdate(tasks[t].room.participants) })
  /\ Finish(t)
  /\ UNCHANGED << dbVars, hubVars, envVars, ops >>

(***************************************************************************)
(* handleGracePeriodExpiry: the grace timer of a disconnected player fires *)
(***************************************************************************)
handleGracePeriodExpiry(c, u) ==
  /\ CanFire(c)
  /\ disconnectedPlayers[u].armed
  /\ now >= disconnectedPlayers[u].deadline
  /\ disconnectedPlayers' = [disconnectedPlayers EXCEPT ![u] = NoTicket]
  /\ Fire([Idle EXCEPT !.kind = "gracePeriodExpiry", !.pc = "findOne", !.user = u, !.cleanup = TRUE])
  /\ UNCHANGED << dbVars, activeGameRooms, gameTimers, userSockets, channel, envVars >> /\ Silent

handleGracePeriodExpiry_findOne(t) ==
  /\ At(t, "gracePeriodExpiry", "findOne")
  /\ LET u == tasks[t].user
         room == FindRoom
     IN IF room.id = 0 \/ u \notin Range(room.participants)
          THEN Finish(t)
          ELSE IF Len(Without(room.participants, u)) = 0
            THEN Goto(t, [tasks[t] EXCEPT !.pc = "deleteRoomProblems", !.room = room])
            ELSE Goto(t, [tasks[t] EXCEPT !.pc = "saveParticipants", !.room = room])
  /\ UNCHANGED << dbVars, hubVars, envVars, ops >> /\ Silent

handleGracePeriodExpiry_save(t) ==
  /\ At(t, "gracePeriodExpiry", "saveParticipants")
  /\ LET doc == tasks[t].room
         ps == Without(doc.participants, tasks[t].user)
     IN IF ArraySaveMatches(doc)
          THEN /\ rooms' = ArraySave(doc, ps)
               /\ Goto(t, [tasks[t] EXCEPT !.pc = "populate", !.room.participants = ps])
          ELSE UNCHANGED << rooms >> /\ Finish(t)
  /\ UNCHANGED << roomProblems, scores, nextId, hubVars, envVars, ops >> /\ Silent

\* room.populate('participants') has answered: room-update and player-left,
\* then transferHostIfNeeded and its guards
handleGracePeriodExpiry_populate(t) ==
  /\ At(t, "gracePeriodExpiry", "populate")
  /\ Publish({ EvRoomUpdate(tasks[t].room.participants),
               EvPlayerLeft(tasks[t].user, Handle(tasks[t].user)) })
  /\ IF TransferNeeded(tasks[t].room, tasks[t].user)
       THEN Goto(t, [tasks[t] EXCEPT !.pc = "updateHost"])
       ELSE Finish(t)
  /\ UNCHANGED << dbVars, hubVars, envVars, ops >>

(***************************************************************************)
(* The clock.                                                              *)
(***************************************************************************)
\* the instants at which a pending setTimeout is due
Deadlines ==
  (IF gameTimers.armed THEN { gameTimers.deadline } ELSE {})
    \cup { disconnectedPlayers[u].deadline : u \in { w \in Users : disconnectedPlayers[w].armed } }
    \cup { tasks[t].wake : t \in { w \in TaskIds : tasks[w].pc = "delay" } }

\* no handler is between two awaits: each is finished or asleep in a setTimeout
Resting == \A t \in TaskIds : tasks[t].pc \in { "idle", "delay" }

\* the setInterval callback of initSockets over the time that passes up to
\* the instant until: at each 5 s mark, timer-sync with Date.now() to every
\* room of activeGameRooms, nothing when the set is empty
initSockets_setInterval(until) ==
  LET n == IF syncDue > until THEN 0 ELSE (until - syncDue) \div SyncEvery + 1
  IN /\ Publish(IF activeGameRooms = {}
                  THEN {}
                  ELSE { EvTimerSync(syncDue + (k - 1) * SyncEvery) : k \in 1 .. n })
     /\ syncDue' = syncDue + n * SyncEvery

\* the clock advances by d (a second or more, against which the awaited calls
\* of a handler are short); a timer that is due runs before the clock passes it
Tick(c, d) ==
  /\ Resting
  /\ ticks < MaxTicks
  /\ d > 0
  /\ \A dl \in Deadlines : now + d <= dl
  /\ now' = now + d
  /\ ticks' = ticks + 1
  /\ initSockets_setInterval(now + d)
  /\ UNCHANGED << dbVars, hubVars, judgeSubs, tasks, ops >>

\* the clock advances to the next instant at which a timer is due
AdvanceToDeadline(c) ==
  /\ Deadlines # {}
  /\ \E dl \in Deadlines : Tick(c, dl - now)

\* nothing happens until the earliest pending setTimeout is due
TimerWait ==
  /\ Resting
  /\ \E dl \in Deadlines :
       /\ now < dl
       /\ \A o \in Deadlines : dl <= o
       /\ now' = dl
       /\ initSockets_setInterval(dl)
  /\ UNCHANGED << dbVars, hubVars, judgeSubs, ticks, tasks, ops >>

(***************************************************************************)
(* Game: problem selection and scoring.                                    *)
(***************************************************************************)
PROBLEM_SCORING ==
  << [ basePoints |-> 500, minPoints |-> 250 ],
     [ basePoints |-> 1000, minPoints |-> 500 ] >>

\* Math.floor((minR + maxR) / 2)
MidRating(minR, maxR) == (minR + maxR) \div 2

LowerHalf(minR, maxR) ==
  { p \in JudgeProblems : p.rating # 0 /\ p.rating >= minR /\ p.rating <= MidRating(minR, maxR) }

UpperHalf(minR, maxR) ==
  { p \in JudgeProblems : p.rating # 0 /\ p.rating > MidRating(minR, maxR) /\ p.rating <= maxR }

\* the RoomProblem document created for selected[idx]
RoomProblemDoc(roomId, p, idx) ==
  [ roomId |-> roomId, contestId |-> p.contestId, index |-> p.index, rating |-> p.rating,
    basePoints |-> PROBLEM_SCORING[idx].basePoints,
    minPoints |-> PROBLEM_SCORING[idx].minPoints ]

\* the problems as the handlers return them
FormatProblems(docs) ==
  [ k \in 1 .. Len(docs) |->
      [ contestId |-> docs[k].contestId, index |-> docs[k].index, rating |-> docs[k].rating,
        basePoints |-> docs[k].basePoints, minPoints |-> docs[k].minPoints ] ]

\* room.settings.duration * 60 * 1000
DurationMs == SettingsDuration * MsPerMinute

Max(a, b) == IF a >= b THEN a ELSE b

\* the decay is not held at minPoints
PointsUnclamped(basePoints, minPoints, startTime, solveTime) ==
  basePoints - ((solveTime - startTime) \div MsPerMinute) * DecayPerMinute

\* Math.max(basePoints - Math.floor((solveTime - startTime) / 60000) * 5, minPoints)
Points(basePoints, minPoints, startTime, solveTime) ==
  Max(basePoints - ((solveTime - startTime) \div MsPerMinute) * DecayPerMinute, minPoints)

(***************************************************************************)
(* socket 'start-game' and startGameInternal                               *)
(***************************************************************************)
on_start_game(c, s) ==
  /\ CanLaunch(c)
  /\ Connected(s)
  /\ LET room == FindRoom
         u == SocketUser(s)
     IN IF room.id = 0
          THEN Publish({ EvError(s, 404) }) /\ ops' = ops + 1 /\ UNCHANGED tasks
          ELSE IF room.host # u
            THEN Publish({ EvError(s, 403) }) /\ ops' = ops + 1 /\ UNCHANGED tasks
            ELSE IF Len(room.participants) < 2
              THEN Publish({ EvError(s, 400) }) /\ ops' = ops + 1 /\ UNCHANGED tasks
              ELSE /\ Publish({ Ev("game-starting") })
                   /\ Launch([Idle EXCEPT !.kind = "start-game", !.pc = "findOne",
                                          !.user = u, !.sock = s])
  /\ UNCHANGED << dbVars, hubVars, envVars >>

startGameInternal_findOne(t) ==
  /\ At(t, "start-game", "findOne")
  /\ LET room == FindRoom IN
       IF room.id = 0 \/ room.status = "started"
         THEN /\ Publish({ EvError(tasks[t].sock, IF room.id = 0 THEN 404 ELSE 409) })
              /\ Finish(t)
         ELSE /\ Goto(t, [tasks[t] EXCEPT !.pc = "fetch", !.room = room, !.loaded = room])
              /\ Silent
  /\ UNCHANGED << dbVars, hubVars, envVars, ops >>

\* fetch(problemset.problems), the two halves, one problem picked from each
\* the room is marked started before the judge is asked
startGameInternal_fetchStartedEarly(t, ok, lo, up) ==
  /\ At(t, "start-game", "fetch")
  /\ LET room == tasks[t].room
         lowerHalf == LowerHalf(room.minRating, room.maxRating)
         upperHalf == UpperHalf(room.minRating, room.maxRating)
     IN IF ~ok \/ lowerHalf = {} \/ upperHalf = {}
          THEN /\ lo = NoProblem /\ up = NoProblem
               /\ Publish({ EvError(tasks[t].sock, IF ok THEN 422 ELSE 502) })
               /\ rooms' = { [r EXCEPT !.status = "started"] : r \in rooms }
               /\ Finish(t)
          ELSE /\ lo \in lowerHalf /\ up \in upperHalf
               /\ Goto(t, [tasks[t] EXCEPT !.pc = "deleteMany", !.selected = << lo, up >>])
               /\ Silent /\ UNCHANGED rooms
  /\ UNCHANGED << roomProblems, scores, nextId, hubVars, envVars, ops >>

startGameInternal_fetch(t, ok, lo, up) ==
  /\ At(t, "start-game", "fetch")
  /\ LET room == tasks[t].room
         lowerHalf == LowerHalf(room.minRating, room.maxRating)
         upperHalf == UpperHalf(room.minRating, room.maxRating)
     IN IF ~ok \/ lowerHalf = {} \/ upperHalf = {}
          THEN /\ lo = NoProblem /\ up = NoProblem
               /\ Publish({ EvError(tasks[t].sock, IF ok THEN 422 ELSE 502) })
               /\ Finish(t)
          ELSE /\ lo \in lowerHalf /\ up \in upperHalf
               /\ Goto(t, [tasks[t] EXCEPT !.pc = "deleteMany", !.selected = << lo, up >>])
               /\ Silent
  /\ UNCHANGED << dbVars, hubVars, envVars, ops >>

startGameInternal_deleteMany(t) ==
  /\ At(t, "start-game", "deleteMany")
  /\ roomProblems' = DeleteRows(roomProblems, tasks[t].room.id)
  /\ Goto(t, [tasks[t] EXCEPT !.pc = "create"])
  /\ UNCHANGED << rooms, scores, nextId, hubVars, envVars, ops >> /\ Silent

\* Promise.all(selected.map(RoomProblem.create)): one insert takes effect;
\* after the last one the handler sets status and startTime on its document
startGameInternal_create(t, idx) ==
  /\ At(t, "start-game", "create")
  /\ idx \in { 1, 2 } \ tasks[t].created
  /\ roomProblems' = Append(roomProblems, RoomProblemDoc(tasks[t].room.id, tasks[t].selected[idx], idx))
  /\ IF tasks[t].created = {}
       THEN Goto(t, [tasks[t] EXCEPT !.created = { idx }])
       ELSE Goto(t, [tasks[t] EXCEPT !.created = { 1, 2 }, !.pc = "save",
                                     !.room.status = "started", !.room.startTime = now])
  /\ UNCHANGED << rooms, scores, nextId, hubVars, envVars, ops >> /\ Silent

\* room.save() of status and startTime; on success the socket handler arms
\* the end timer and publishes game-started
startGameInternal_save(t) ==
  /\ At(t, "start-game", "save")
  /\ LET doc == tasks[t].room IN
       IF Stored(doc.id) # {}
         THEN /\ rooms' = { IF r.id = doc.id
                              THEN SaveModified(r, tasks[t].loaded, doc)
                              ELSE r : r \in rooms }
              /\ activeGameRooms' = activeGameRooms \cup { RoomCode }
              /\ gameTimers' = [ armed |-> TRUE, deadline |-> now + DurationMs ]
              /\ Publish({ [ Ev("game-started") EXCEPT
                               !.problems = FormatProblems(
                                  << RoomProblemDoc(doc.id, tasks[t].selected[1], 1),
                                     RoomProblemDoc(doc.id, tasks[t].selected[2], 2) >>),
                               !.startTime = doc.startTime, !.n = SettingsDuration ] })
         ELSE /\ Publish({ EvError(tasks[t].sock, 500) })
              /\ UNCHANGED << rooms, activeGameRooms, gameTimers >>
  /\ Finish(t)
  /\ UNCHANGED << roomProblems, scores, nextId, disconnectedPlayers, userSockets, channel,
                  envVars, ops >>

(***************************************************************************)
(* POST /game/:code/start                                                  *)
(***************************************************************************)
startGame_findOne(c, u) ==
  /\ CanLaunch(c)
  /\ rooms # {}
  /\ FindRoom.host = u
  /\ Launch([Idle EXCEPT !.kind = "startGame", !.pc = "fetch", !.user = u, !.room = FindRoom,
                          !.loaded = FindRoom])
  /\ UNCHANGED << dbVars, hubVars, envVars >> /\ Silent

startGame_fetch(t, ok, lo, up) ==
  /\ At(t, "startGame", "fetch")
  /\ LET room == tasks[t].room
         lowerHalf == LowerHalf(room.minRating, room.maxRating)
         upperHalf == UpperHalf(room.minRating, room.maxRating)
     IN IF ~ok \/ lowerHalf = {} \/ upperHalf = {}
          THEN /\ lo = NoProblem /\ up = NoProblem
               /\ Finish(t)
          ELSE /\ lo \in lowerHalf /\ up \in upperHalf
               /\ Goto(t, [tasks[t] EXCEPT !.pc = "create", !.selected = << lo, up >>])
  /\ UNCHANGED << dbVars, hubVars, envVars, ops >> /\ Silent

startGame_create(t, idx) ==
  /\ At(t, "startGame", "create")
  /\ idx \in { 1, 2 } \ tasks[t].created
  /\ roomProblems' = Append(roomProblems, RoomProblemDoc(tasks[t].room.id, tasks[t].selected[idx], idx))
  /\ IF tasks[t].created = {}
       THEN Goto(t, [tasks[t] EXCEPT !.created = { idx }])
       ELSE Goto(t, [tasks[t] EXCEPT !.created = { 1, 2 }, !.pc = "save",
                                     !.room.status = "started", !.room.startTime = now])
  /\ UNCHANGED << rooms, scores, nextId, hubVars, envVars, ops >> /\ Silent

startGame_save(t) ==
  /\ At(t, "startGame", "save")
  /\ rooms' = { IF r.id = tasks[t].room.id
                  THEN SaveModified(r, tasks[t].loaded, tasks[t].room)
                  ELSE r : r \in rooms }
  /\ Finish(t)
  /\ UNCHANGED << roomProblems, scores, nextId, hubVars, envVars, ops >> /\ Silent

(***************************************************************************)
(* POST /game/:code/end                                                    *)
(***************************************************************************)
endGame_findOne(c, u) ==
  /\ CanLaunch(c)
  /\ rooms # {}
  /\ FindRoom.host = u
  /\ Launch([Idle EXCEPT !.kind = "endGame", !.pc = "save", !.user = u, !.room = FindRoom])
  /\ UNCHANGED << dbVars, hubVars, envVars >> /\ Silent

endGame_save(t) ==
  /\ At(t, "endGame", "save")
  /\ rooms' = { IF r.id = tasks[t].room.id
                  THEN SaveModified(r, tasks[t].room, [tasks[t].room EXCEPT !.status = "ended"])
                  ELSE r : r \in rooms }
  /\ Finish(t)
  /\ UNCHANGED << roomProblems, scores, nextId, hubVars, envVars, ops >> /\ Silent

(***************************************************************************)
(* PUT /rooms/:code/settings                                               *)
(***************************************************************************)
\* Room.findOne and the three tests (404, 403, 400); the body's
\* questionCount and duration are read and not used
updateSettings_findOne(c, u, minIn, maxIn, countIn, durationIn) ==
  /\ CanLaunch(c)
  /\ LET room == FindRoom IN
       IF room.id = 0 \/ room.host # u \/ room.status # "waiting"
         THEN ops' = ops + 1 /\ UNCHANGED tasks
         ELSE Launch([Idle EXCEPT !.kind = "updateSettings", !.pc = "save", !.user = u,
                                  !.loaded = room,
                                  !.room = [room EXCEPT
                                              !.minRating = IF minIn # 0 THEN minIn ELSE @,
                                              !.maxRating = IF maxIn # 0 THEN maxIn ELSE @,
                                              !.questionCount = QuestionCount,
                                              !.duration = SettingsDuration]])
  /\ UNCHANGED << dbVars, hubVars, envVars >> /\ Silent

\* room.save(): when the room has been deleted since Room.findOne the save
\* rejects, whether or not the settings were modified (a save with nothing to
\* write looks the document up), and the catch answers 500; otherwise the
\* modified paths are written and the handler goes on to the populates
updateSettings_save(t) ==
  /\ At(t, "updateSettings", "save")
  /\ IF Stored(tasks[t].room.id) = {}
       THEN UNCHANGED rooms /\ Finish(t)
       ELSE /\ rooms' = { IF r.id = tasks[t].room.id
                            THEN SaveModified(r, tasks[t].loaded, tasks[t].room)
                            ELSE r : r \in rooms }
            /\ Goto(t, [tasks[t] EXCEPT !.pc = "populateHost"])
  /\ UNCHANGED << roomProblems, scores, nextId, hubVars, envVars, ops >> /\ Silent

\* room.populate('host') has answered
updateSettings_populateHost(t) ==
  /\ At(t, "updateSettings", "populateHost")
  /\ Goto(t, [tasks[t] EXCEPT !.pc = "populateParticipants"])
  /\ UNCHANGED << dbVars, hubVars, envVars, ops >> /\ Silent

\* room.populate('participants') has answered: the response
updateSettings_populateParticipants(t) ==
  /\ At(t, "updateSettings", "populateParticipants")
  /\ Finish(t)
  /\ UNCHANGED << dbVars, hubVars, envVars, ops >> /\ Silent


(***************************************************************************)
(* The judge: submissions, and the scan of a user.status result.           *)
(***************************************************************************)
Verdicts == { "OK", "WRONG_ANSWER" }

\* a user submits to the judge; the judge stamps the submission in seconds
Submit(c, u, p, verdict) ==
  /\ Quiet(c)
  /\ Cardinality(judgeSubs) < MaxSubs
  /\ judgeSubs' = judgeSubs \cup
       { [ handle |-> Handle(u), contestId |-> p.contestId, index |-> p.index,
           verdict |-> verdict, creationTimeSeconds |-> now \div MsPerSecond ] }
  /\ judgeSubs' # judgeSubs
  /\ UNCHANGED << dbVars, hubVars, now, ticks, syncDue, tasks, ops >> /\ Silent

\* user.status?handle=
UserStatus(handle) == { sub \in judgeSubs : sub.handle = handle }

\* the accepted submissions of the problem made after startTime and, where
\* the caller bounds the window, not after endTime
\* a submission stamped with the start time counts as made in the game
ValidSubmissionsFromStart(subs, contestId, index, startTime, bounded, endTime) ==
  { sub \in subs :
      /\ sub.contestId = contestId
      /\ sub.index = index
      /\ sub.verdict = "OK"
      /\ sub.creationTimeSeconds * MsPerSecond >= startTime
      /\ bounded => sub.creationTimeSeconds * MsPerSecond <= endTime }

ValidSubmissions(subs, contestId, index, startTime, bounded, endTime) ==
  { sub \in subs :
      /\ sub.contestId = contestId
      /\ sub.index = index
      /\ sub.verdict = "OK"
      /\ sub.creationTimeSeconds * MsPerSecond > startTime
      /\ bounded => sub.creationTimeSeconds * MsPerSecond <= endTime }

\* earliestSubmission.creationTimeSeconds * 1000
SolveTime(valid) ==
  MsPerSecond * (CHOOSE n \in { sub.creationTimeSeconds : sub \in valid } :
                   \A sub \in valid : n <= sub.creationTimeSeconds)

ScoreDoc(roomId, u, contestId, index, solveTime, points) ==
  [ roomId |-> roomId, userId |-> u, contestId |-> contestId, index |-> index,
    solvedAt |-> solveTime, points |-> points ]

\* RoomProblem.findOne({ roomId, contestId, index }) on rows in insertion order
ProblemRows(roomId, contestId, index) ==
  SelectSeq(roomProblems,
            LAMBDA x : x.roomId = roomId /\ x.contestId = contestId /\ x.index = index)

\* Score.findOne({ roomId, userId, contestId, index })
ScoreRows(roomId, u, contestId, index) ==
  SelectSeq(scores,
            LAMBDA x : x.roomId = roomId /\ x.userId = u /\ x.contestId = contestId
                       /\ x.index = index)

(***************************************************************************)
(* computeLeaderboard                                                      *)
(***************************************************************************)
\* handles in the order in which the aggregation first meets them
RECURSIVE HandlesOf(_)
HandlesOf(rows) ==
  IF rows = << >> THEN << >>
  ELSE LET front == HandlesOf(SubSeq(rows, 1, Len(rows) - 1))
           h == Handle(rows[Len(rows)].userId)
       IN IF h \in Range(front) THEN front ELSE Append(front, h)

RECURSIVE SumPoints(_)
SumPoints(rows) ==
  IF rows = << >> THEN 0 ELSE rows[1].points + SumPoints(Tail(rows))

LeaderboardEntry(rows, h) ==
  LET mine == SelectSeq(rows, LAMBDA x : Handle(x.userId) = h) IN
    [ handle |-> h, totalPoints |-> SumPoints(mine), solvedCount |-> Len(mine),
      problemScores |-> [ k \in 1 .. Len(mine) |->
                            [ contestId |-> mine[k].contestId, index |-> mine[k].index,
                              points |-> mine[k].points, solvedAt |-> mine[k].solvedAt ] ] ]

\* Array.prototype.sort((a, b) => b.totalPoints - a.totalPoints), a stable sort
RECURSIVE SortByTotalPoints(_)
SortByTotalPoints(entries) ==
  IF entries = << >> THEN << >>
  ELSE LET front == SortByTotalPoints(SubSeq(entries, 1, Len(entries) - 1))
           e == entries[Len(entries)]
           ahead == SelectSeq(front, LAMBDA x : x.totalPoints >= e.totalPoints)
           behind == SelectSeq(front, LAMBDA x : x.totalPoints < e.totalPoints)
       IN ahead \o << e >> \o behind

computeLeaderboard(roomId) ==
  LET rows == RowsOf(scores, roomId)
      hs == HandlesOf(rows)
  IN SortByTotalPoints([ k \in 1 .. Len(hs) |-> LeaderboardEntry(rows, hs[k]) ])

\* leaderboard.length > 0 ? leaderboard[0] : null
Winner(leaderboard) == IF leaderboard = << >> THEN "" ELSE leaderboard[1].handle

EvProblemSolved(u, h, p, points) ==
  [ Ev("problem-solved") EXCEPT !.userId = u, !.handle = h, !.contestId = p.contestId,
                                !.index = p.index, !.points = points ]
EvProblemNotSolved(s, p) ==
  [ Ev("problem-not-solved") EXCEPT !.to = s, !.contestId = p.contestId, !.index = p.index ]
EvLeaderboardUpdate(lb) == [ Ev("leaderboard-update") EXCEPT !.leaderboard = lb ]
EvGameEnded(lb) == [ Ev("game-ended") EXCEPT !.leaderboard = lb, !.winner = Winner(lb) ]


(***************************************************************************)
(* socket 'check-problem' and checkSubmissionInternal                      *)
(***************************************************************************)
on_check_problem(c, s, p) ==
  /\ CanLaunch(c)
  /\ Connected(s)
  /\ LET room == FindRoom IN
       IF room.id = 0 \/ room.status # "started"
         THEN Publish({ EvError(s, IF room.id = 0 THEN 404 ELSE 400) })
              /\ ops' = ops + 1 /\ UNCHANGED tasks
         ELSE /\ Launch([Idle EXCEPT !.kind = "check-problem", !.pc = "findOne",
                                     !.user = SocketUser(s), !.sock = s, !.problem = p])
              /\ Silent
  /\ UNCHANGED << dbVars, hubVars, envVars >>

checkSubmissionInternal_findOne(t) ==
  /\ At(t, "check-problem", "findOne")
  /\ LET room == FindRoom IN
       IF room.id = 0 \/ room.status # "started"
         THEN /\ Publish({ EvProblemNotSolved(tasks[t].sock, tasks[t].problem) })
              /\ Finish(t)
         ELSE /\ Goto(t, [tasks[t] EXCEPT !.pc = "findProblem", !.room = room])
              /\ Silent
  /\ UNCHANGED << dbVars, hubVars, envVars, ops >>

checkSubmissionInternal_findProblem(t) ==
  /\ At(t, "check-problem", "findProblem")
  /\ LET found == ProblemRows(tasks[t].room.id, tasks[t].problem.contestId, tasks[t].problem.index) IN
       IF found = << >>
         THEN /\ Publish({ EvProblemNotSolved(tasks[t].sock, tasks[t].problem) })
              /\ Finish(t)
         ELSE /\ Goto(t, [tasks[t] EXCEPT !.pc = "findScore",
                                          !.basePoints = found[1].basePoints,
                                          !.minPoints = found[1].minPoints])
              /\ Silent
  /\ UNCHANGED << dbVars, hubVars, envVars, ops >>

\* Score.findOne: a score already there is reported as solved, and the
\* socket handler publishes problem-solved for it
checkSubmissionInternal_findScore(t) ==
  /\ At(t, "check-problem", "findScore")
  /\ LET u == tasks[t].user
         found == ScoreRows(tasks[t].room.id, u, tasks[t].problem.contestId, tasks[t].problem.index)
     IN IF found # << >>
          THEN /\ Publish({ EvProblemSolved(u, Handle(u), tasks[t].problem, found[1].points) })
               /\ Goto(t, [tasks[t] EXCEPT !.pc = "leaderboardFindOne"])
          ELSE /\ Goto(t, [tasks[t] EXCEPT !.pc = "fetch"])
               /\ Silent
  /\ UNCHANGED << dbVars, hubVars, envVars, ops >>

checkSubmissionInternal_fetch(t, ok) ==
  /\ At(t, "check-problem", "fetch")
  /\ LET room == tasks[t].room
         valid == ValidSubmissions(UserStatus(Handle(tasks[t].user)), tasks[t].problem.contestId,
                                   tasks[t].problem.index, room.startTime, FALSE, 0)
     IN IF ~ok \/ valid = {}
          THEN /\ Publish({ EvProblemNotSolved(tasks[t].sock, tasks[t].problem) })
               /\ Finish(t)
          ELSE /\ Goto(t, [tasks[t] EXCEPT
                             !.pc = "create",
                             !.solveTime = SolveTime(valid),
                             !.points = Points(tasks[t].basePoints, tasks[t].minPoints,
                                               room.startTime, SolveTime(valid))])
               /\ Silent
  /\ UNCHANGED << dbVars, hubVars, envVars, ops >>

\* the Score is stored and the room is not told
checkSubmissionInternal_createUnannounced(t) ==
  /\ At(t, "check-problem", "create")
  /\ LET u == tasks[t].user IN
       scores' = Append(scores, ScoreDoc(tasks[t].room.id, u, tasks[t].problem.contestId,
                                         tasks[t].problem.index, tasks[t].solveTime,
                                         tasks[t].points))
  /\ Goto(t, [tasks[t] EXCEPT !.pc = "leaderboardFindOne"])
  /\ UNCHANGED << rooms, roomProblems, nextId, hubVars, envVars, ops >> /\ Silent

checkSubmissionInternal_create(t) ==
  /\ At(t, "check-problem", "create")
  /\ LET u == tasks[t].user IN
       /\ scores' = Append(scores, ScoreDoc(tasks[t].room.id, u, tasks[t].problem.contestId,
                                            tasks[t].problem.index, tasks[t].solveTime,
                                            tasks[t].points))
       /\ Publish({ EvProblemSolved(u, Handle(u), tasks[t].problem, tasks[t].points) })
  /\ Goto(t, [tasks[t] EXCEPT !.pc = "leaderboardFindOne"])
  /\ UNCHANGED << rooms, roomProblems, nextId, hubVars, envVars, ops >>

\* getLeaderboardInternal: Room.findOne, then the aggregation
getLeaderboardInternal_findOne(t) ==
  /\ At(t, "check-problem", "leaderboardFindOne")
  /\ IF FindRoom.id = 0
       THEN Publish({ EvLeaderboardUpdate(<< >>) }) /\ Finish(t)
       ELSE Goto(t, [tasks[t] EXCEPT !.pc = "leaderboardAggregate", !.room = FindRoom])
            /\ Silent
  /\ UNCHANGED << dbVars, hubVars, envVars, ops >>

\* the store evaluates the aggregation; its answer is on the way to the handler
getLeaderboardInternal_aggregate(t) ==
  /\ At(t, "check-problem", "leaderboardAggregate")
  /\ Goto(t, [tasks[t] EXCEPT !.pc = "leaderboardEmit",
                              !.leaderboard = computeLeaderboard(tasks[t].room.id)])
  /\ UNCHANGED << dbVars, hubVars, envVars, ops >> /\ Silent

\* the handler resumes with the leaderboard it awaited and emits it
on_check_problem_emit(t) ==
  /\ At(t, "check-problem", "leaderboardEmit")
  /\ Publish({ EvLeaderboardUpdate(tasks[t].leaderboard) })
  /\ Finish(t)
  /\ UNCHANGED << dbVars, hubVars, envVars, ops >>

(***************************************************************************)
(* POST /game/:code/check                                                  *)
(***************************************************************************)
checkSubmission_findOne(c, u, p) ==
  /\ CanLaunch(c)
  /\ rooms # {}
  /\ FindRoom.status = "started"
  /\ u \in Range(FindRoom.participants)
  /\ Launch([Idle EXCEPT !.kind = "checkSubmission", !.pc = "findProblem", !.user = u,
                         !.problem = p, !.room = FindRoom])
  /\ UNCHANGED << dbVars, hubVars, envVars >> /\ Silent

checkSubmission_findProblem(t) ==
  /\ At(t, "checkSubmission", "findProblem")
  /\ LET found == ProblemRows(tasks[t].room.id, tasks[t].problem.contestId, tasks[t].problem.index) IN
       IF found = << >>
         THEN Finish(t)
         ELSE Goto(t, [tasks[t] EXCEPT !.pc = "findScore",
                                       !.basePoints = found[1].basePoints,
                                       !.minPoints = found[1].minPoints])
  /\ UNCHANGED << dbVars, hubVars, envVars, ops >> /\ Silent

checkSubmission_findScore(t) ==
  /\ At(t, "checkSubmission", "findScore")
  /\ IF ScoreRows(tasks[t].room.id, tasks[t].user, tasks[t].problem.contestId,
                  tasks[t].problem.index) # << >>
       THEN Finish(t)
       ELSE Goto(t, [tasks[t] EXCEPT !.pc = "fetch"])
  /\ UNCHANGED << dbVars, hubVars, envVars, ops >> /\ Silent

checkSubmission_fetch(t, ok) ==
  /\ At(t, "checkSubmission", "fetch")
  /\ LET room == tasks[t].room
         valid == ValidSubmissions(UserStatus(Handle(tasks[t].user)), tasks[t].problem.contestId,
                                   tasks[t].problem.index, room.startTime, FALSE, 0)
     IN IF ~ok \/ valid = {}
          THEN Finish(t)
          ELSE Goto(t, [tasks[t] EXCEPT
                          !.pc = "create",
                          !.solveTime = SolveTime(valid),
                          !.points = Points(tasks[t].basePoints, tasks[t].minPoints,
                                            room.startTime, SolveTime(valid))])
  /\ UNCHANGED << dbVars, hubVars, envVars, ops >> /\ Silent

checkSubmission_create(t) ==
  /\ At(t, "checkSubmission", "create")
  /\ scores' = Append(scores, ScoreDoc(tasks[t].room.id, tasks[t].user, tasks[t].problem.contestId,
                                       tasks[t].problem.index, tasks[t].solveTime,
                                       tasks[t].points))
  /\ Goto(t, [tasks[t] EXCEPT !.pc = "aggregate"])
  /\ UNCHANGED << rooms, roomProblems, nextId, hubVars, envVars, ops >> /\ Silent

\* computeLeaderboard, then the two emits (problem-solved carries no handle)
checkSubmission_aggregate(t) ==
  /\ At(t, "checkSubmission", "aggregate")
  /\ Publish({ EvProblemSolved(tasks[t].user, "", tasks[t].problem, tasks[t].points),
               EvLeaderboardUpdate(computeLeaderboard(tasks[t].room.id)) })
  /\ Finish(t)
  /\ UNCHANGED << dbVars, hubVars, envVars, ops >>


(***************************************************************************)
(* handleGameEnd and autoCheckAllSubmissionsInternal (the end-of-game      *)
(* sweep)                                                                  *)
(***************************************************************************)
\* the end timer fires
handleGameEnd(c) ==
  /\ CanFire(c)
  /\ gameTimers.armed
  /\ now >= gameTimers.deadline
  /\ gameTimers' = NoTimer
  /\ Fire([Idle EXCEPT !.kind = "gameEnd", !.pc = "findOne"])
  /\ UNCHANGED << dbVars, activeGameRooms, disconnectedPlayers, userSockets, channel, envVars >> /\ Silent

\* handleGameEnd after the sweep returned: the room leaves activeGameRooms
\* and game-ended is published
GameEnded(t, leaderboard) ==
  /\ activeGameRooms' = activeGameRooms \ { RoomCode }
  /\ Publish({ EvGameEnded(leaderboard) })
  /\ Finish(t)

\* handleGameEnd called once more for the room whose game-ended payload has
\* just been emitted; the caller keeps the leaderboard of the first run
handleGameEnd_replay(c) ==
  /\ CanFire(c)
  /\ \E e \in published :
       /\ e.type = "game-ended"
       /\ Fire([Idle EXCEPT !.kind = "gameEnd", !.pc = "findOne", !.replay = TRUE,
                            !.first = e.leaderboard])
  /\ gameTimers' = NoTimer
  /\ UNCHANGED << dbVars, activeGameRooms, disconnectedPlayers, userSockets, channel, envVars >> /\ Silent

\* the sweep moves on to the problem after tasks[t].j, or to the next
\* participant (after the pacing delay), or to the final save
NextProblem(task) ==
  IF task.j < Len(task.problems)
    THEN [task EXCEPT !.pc = "findScore", !.j = task.j + 1]
    ELSE IF task.i < Len(task.room.participants)
      THEN [task EXCEPT !.pc = "delay", !.i = task.i + 1, !.j = 0, !.wake = now + PacingDelay]
      ELSE [task EXCEPT !.pc = "save", !.room.status = "ended"]

NextParticipant(task) == NextProblem([task EXCEPT !.j = Len(task.problems)])

\* the sweep without its "already ended" return
autoCheckAllSubmissionsInternal_findOneResweep(t) ==
  /\ At(t, "gameEnd", "findOne")
  /\ LET room == FindRoom IN
       IF room.id = 0
         THEN GameEnded(t, << >>)
         ELSE /\ Goto(t, [tasks[t] EXCEPT !.pc = "findProblems", !.room = room])
              /\ UNCHANGED << activeGameRooms >> /\ Silent
  /\ UNCHANGED << dbVars, gameTimers, disconnectedPlayers, userSockets, channel, envVars, ops >>

autoCheckAllSubmissionsInternal_findOne(t) ==
  /\ At(t, "gameEnd", "findOne")
  /\ LET room == FindRoom IN
       IF room.id = 0
         THEN GameEnded(t, << >>)
         ELSE /\ Goto(t, [tasks[t] EXCEPT
                            !.pc = IF room.status = "ended" THEN "aggregate" ELSE "findProblems",
                            !.room = room])
              /\ UNCHANGED << activeGameRooms >> /\ Silent
  /\ UNCHANGED << dbVars, gameTimers, disconnectedPlayers, userSockets, channel, envVars, ops >>

\* RoomProblem.find; reading startTime of a room that never started throws,
\* and the sweep returns an empty leaderboard
autoCheckAllSubmissionsInternal_findProblems(t) ==
  /\ At(t, "gameEnd", "findProblems")
  /\ LET task == [tasks[t] EXCEPT !.problems = RowsOf(roomProblems, tasks[t].room.id)] IN
       IF task.room.startTime = NullTime
         THEN GameEnded(t, << >>)
         ELSE /\ IF task.room.participants = << >>
                   THEN Goto(t, [task EXCEPT !.pc = "save", !.room.status = "ended"])
                   ELSE Goto(t, [task EXCEPT !.pc = "fetch", !.i = 1])
              /\ UNCHANGED << activeGameRooms >> /\ Silent
  /\ UNCHANGED << dbVars, gameTimers, disconnectedPlayers, userSockets, channel, envVars, ops >>

\* setTimeout(resolve, 1000) is due
autoCheckAllSubmissionsInternal_delay(t) ==
  /\ At(t, "gameEnd", "delay")
  /\ now >= tasks[t].wake
  /\ Goto(t, [tasks[t] EXCEPT !.pc = "fetch"])
  /\ UNCHANGED << dbVars, hubVars, envVars, ops >> /\ Silent

\* a failing judge call ends the loop over the participants
autoCheckAllSubmissionsInternal_fetchOrBreak(t, ok) ==
  /\ At(t, "gameEnd", "fetch")
  /\ LET participant == tasks[t].room.participants[tasks[t].i] IN
       IF ~ok
         THEN Goto(t, [tasks[t] EXCEPT !.pc = "save", !.room.status = "ended"])
         ELSE Goto(t, NextProblem([tasks[t] EXCEPT !.subs = UserStatus(Handle(participant)), !.j = 0]))
  /\ UNCHANGED << dbVars, hubVars, envVars, ops >> /\ Silent

autoCheckAllSubmissionsInternal_fetch(t, ok) ==
  /\ At(t, "gameEnd", "fetch")
  /\ LET participant == tasks[t].room.participants[tasks[t].i] IN
       IF ~ok
         THEN Goto(t, NextParticipant(tasks[t]))
         ELSE Goto(t, NextProblem([tasks[t] EXCEPT !.subs = UserStatus(Handle(participant)), !.j = 0]))
  /\ UNCHANGED << dbVars, hubVars, envVars, ops >> /\ Silent

\* the sweep has no end of the window
autoCheckAllSubmissionsInternal_findScoreUnbounded(t) ==
  /\ At(t, "gameEnd", "findScore")
  /\ LET room == tasks[t].room
         participant == room.participants[tasks[t].i]
         problem == tasks[t].problems[tasks[t].j]
         valid == ValidSubmissions(tasks[t].subs, problem.contestId, problem.index,
                                   room.startTime, FALSE, 0)
     IN IF ScoreRows(room.id, participant, problem.contestId, problem.index) # << >> \/ valid = {}
          THEN Goto(t, NextProblem(tasks[t]))
          ELSE Goto(t, [tasks[t] EXCEPT
                          !.pc = "create",
                          !.solveTime = SolveTime(valid),
                          !.points = Points(problem.basePoints, problem.minPoints,
                                            room.startTime, SolveTime(valid))])
  /\ UNCHANGED << dbVars, hubVars, envVars, ops >> /\ Silent

\* the sweep scores a solve by the time the game ended
autoCheckAllSubmissionsInternal_findScoreAtEnd(t) ==
  /\ At(t, "gameEnd", "findScore")
  /\ LET room == tasks[t].room
         participant == room.participants[tasks[t].i]
         problem == tasks[t].problems[tasks[t].j]
         gameEndTime == room.startTime + DurationMs
         valid == ValidSubmissions(tasks[t].subs, problem.contestId, problem.index,
                                   room.startTime, TRUE, gameEndTime)
     IN IF ScoreRows(room.id, participant, problem.contestId, problem.index) # << >> \/ valid = {}
          THEN Goto(t, NextProblem(tasks[t]))
          ELSE Goto(t, [tasks[t] EXCEPT
                          !.pc = "create",
                          !.solveTime = SolveTime(valid),
                          !.points = Points(problem.basePoints, problem.minPoints,
                                            room.startTime, gameEndTime)])
  /\ UNCHANGED << dbVars, hubVars, envVars, ops >> /\ Silent

autoCheckAllSubmissionsInternal_findScore(t) ==
  /\ At(t, "gameEnd", "findScore")
  /\ LET room == tasks[t].room
         participant == room.participants[tasks[t].i]
         problem == tasks[t].problems[tasks[t].j]
         gameEndTime == room.startTime + DurationMs
         valid == ValidSubmissions(tasks[t].subs, problem.contestId, problem.index,
                                   room.startTime, TRUE, gameEndTime)
     IN IF ScoreRows(room.id, participant, problem.contestId, problem.index) # << >> \/ valid = {}
          THEN Goto(t, NextProblem(tasks[t]))
          ELSE Goto(t, [tasks[t] EXCEPT
                          !.pc = "create",
                          !.solveTime = SolveTime(valid),
                          !.points = Points(problem.basePoints, problem.minPoints,
                                            room.startTime, SolveTime(valid))])
  /\ UNCHANGED << dbVars, hubVars, envVars, ops >> /\ Silent

autoCheckAllSubmissionsInternal_create(t) ==
  /\ At(t, "gameEnd", "create")
  /\ LET room == tasks[t].room
         problem == tasks[t].problems[tasks[t].j]
     IN scores' = Append(scores, ScoreDoc(room.id, room.participants[tasks[t].i], problem.contestId,
                                          problem.index, tasks[t].solveTime, tasks[t].points))
  /\ Goto(t, NextProblem(tasks[t]))
  /\ UNCHANGED << rooms, roomProblems, nextId, hubVars, envVars, ops >> /\ Silent

\* room.status = 'ended'; room.save()
autoCheckAllSubmissionsInternal_save(t) ==
  /\ At(t, "gameEnd", "save")
  /\ IF Stored(tasks[t].room.id) # {}
       THEN /\ rooms' = { IF r.id = tasks[t].room.id THEN [r EXCEPT !.status = "ended"] ELSE r :
                          r \in rooms }
            /\ Goto(t, [tasks[t] EXCEPT !.pc = "aggregate"])
            /\ UNCHANGED << activeGameRooms >> /\ Silent
       ELSE /\ GameEnded(t, << >>)
            /\ UNCHANGED rooms
  /\ UNCHANGED << roomProblems, scores, nextId, gameTimers, disconnectedPlayers, userSockets,
                  channel, envVars, ops >>

\* computeLeaderboard, the return to handleGameEnd, game-ended
autoCheckAllSubmissionsInternal_aggregate(t) ==
  /\ At(t, "gameEnd", "aggregate")
  /\ GameEnded(t, computeLeaderboard(tasks[t].room.id))
  /\ UNCHANGED << dbVars, gameTimers, disconnectedPlayers, userSockets, channel, envVars, ops >>


\* a failing call to the store that nothing catches: the handler is over
autoCheckAllSubmissionsInternal_uncaught(t) ==
  /\ tasks[t].kind = "gameEnd"
  /\ tasks[t].pc \in { "findOne", "findProblems", "findScore", "create", "save", "aggregate" }
  /\ Finish(t)
  /\ UNCHANGED << dbVars, hubVars, envVars, ops >> /\ Silent

\* a call to the store fails during the sweep: inside the loop over the
\* participants the error is logged and the sweep goes on with the next
\* participant; anywhere else the sweep returns an empty leaderboard
autoCheckAllSubmissionsInternal_storeError(t) ==
  /\ tasks[t].kind = "gameEnd"
  /\ tasks[t].pc \in { "findOne", "findProblems", "findScore", "create", "save", "aggregate" }
  /\ IF tasks[t].pc \in { "findScore", "create" }
       THEN /\ Goto(t, NextParticipant(tasks[t]))
            /\ UNCHANGED << activeGameRooms >> /\ Silent
       ELSE GameEnded(t, << >>)
  /\ UNCHANGED << dbVars, gameTimers, disconnectedPlayers, userSockets, channel, envVars, ops >>

(***************************************************************************)
(* Specifications.  Each one is the program restricted to the operations   *)
(* its claims are about, with the requests drawn from small sets.          *)
(***************************************************************************)
\* the membership handlers: HTTP create/join/leave, the socket session,
\* join-room, leave-room, disconnect, grace expiry, host transfer, cascade
Membership(c) ==
  \/ createRoom_findOne(c, "u1", 0, 0)
  \/ \E t \in TaskIds : createRoom_save(t)
  \/ \E u \in Users : joinRoom_findOne(c, u)
  \/ \E t \in TaskIds : joinRoom_save(t) \/ joinRoom_populate(t)
  \/ \E u \in Users : leaveRoom_findOne(c, u)
  \/ \E t \in TaskIds : leaveRoom_saveParticipants(t)
  \/ \E t \in TaskIds : leaveRoom_saveHost(t) \/ leaveRoom_findById(t) \/ leaveRoom_populate(t)
  \/ \E t \in TaskIds : cascade_deleteRoomProblems(t)
  \/ \E t \in TaskIds : cascade_deleteScores(t)
  \/ \E t \in TaskIds : cascade_deleteRoom(t)
  \/ \E s \in Sockets : on_connection(c, s)
  \/ \E s \in Sockets : on_join_room(c, s)
  \/ \E t \in TaskIds : on_join_room_findOne(t)
  \/ \E t \in TaskIds : on_join_room_addToSet(t)
  \/ \E t \in TaskIds : on_join_room_reload(t)
  \/ \E s \in Sockets : on_leave_room(c, s)
  \/ \E t \in TaskIds : on_leave_room_findOneAndUpdate(t)
  \/ \E t \in TaskIds : transferHostIfNeeded_updateOne(t) \/ transferHostIfNeeded_findById(t)
  \/ \E s \in Sockets : on_disconnect(c, s)
  \/ \E t \in TaskIds : on_disconnect_find(t)
  \/ \E t \in TaskIds : on_disconnect_saveParticipants(t) \/ on_disconnect_populate(t)
  \/ \E u \in Users : handleGracePeriodExpiry(c, u)
  \/ \E t \in TaskIds : handleGracePeriodExpiry_findOne(t)
  \/ \E t \in TaskIds : handleGracePeriodExpiry_save(t) \/ handleGracePeriodExpiry_populate(t)
  \/ AdvanceToDeadline(c)

\* the HTTP start and end of a game
HttpStart(c) ==
  \/ \E u \in Users : startGame_findOne(c, u)
  \/ \E t \in TaskIds, lo, up \in JudgeProblems \cup { NoProblem } : startGame_fetch(t, TRUE, lo, up)
  \/ \E t \in TaskIds, idx \in { 1, 2 } : startGame_create(t, idx)
  \/ \E t \in TaskIds : startGame_save(t)

HttpEnd(c) ==
  \/ \E u \in Users : endGame_findOne(c, u)
  \/ \E t \in TaskIds : endGame_save(t)

HttpGame(c) == HttpStart(c) \/ HttpEnd(c)

NextRoom == Membership(RoomRun) \/ HttpGame(RoomRun)
SpecRoom == Init /\ [][NextRoom]_vars

NextRoomSeq == Membership(OneAtATime) \/ HttpGame(OneAtATime)
SpecRoomSeq == Init /\ [][NextRoomSeq]_vars

\* the continuation of handler t after the call it awaits has returned
RoomStep(t) ==
  \/ createRoom_save(t) \/ joinRoom_save(t) \/ joinRoom_populate(t)
  \/ leaveRoom_saveParticipants(t) \/ leaveRoom_saveHost(t) \/ leaveRoom_findById(t) \/ leaveRoom_populate(t)
  \/ cascade_deleteRoomProblems(t) \/ cascade_deleteScores(t) \/ cascade_deleteRoom(t)
  \/ on_join_room_findOne(t) \/ on_join_room_addToSet(t) \/ on_join_room_reload(t)
  \/ on_leave_room_findOneAndUpdate(t) \/ transferHostIfNeeded_updateOne(t) \/ transferHostIfNeeded_findById(t)
  \/ on_disconnect_find(t) \/ on_disconnect_saveParticipants(t) \/ on_disconnect_populate(t)
  \/ handleGracePeriodExpiry_findOne(t) \/ handleGracePeriodExpiry_save(t) \/ handleGracePeriodExpiry_populate(t)
  \/ \E lo, up \in JudgeProblems \cup { NoProblem } : startGame_fetch(t, TRUE, lo, up)
  \/ \E idx \in { 1, 2 } : startGame_create(t, idx)
  \/ startGame_save(t)
  \/ endGame_save(t)

\* the room with handlers overlapping at their awaits, the process staying
\* up: an awaited call returns and its handler goes on, time passes until the
\* next timer is due, and a timer that is due runs its callback
NextRoomFair == Membership(RoomRun) \/ HttpGame(RoomRun) \/ TimerWait
SpecRoomFair ==
  /\ Init /\ [][NextRoomFair]_vars
  /\ \A t \in TaskIds : WF_vars(RoomStep(t))
  /\ WF_vars(TimerWait)
  /\ \A u \in Users : WF_vars(handleGracePeriodExpiry(RoomRun, u))


\* the sessions of a user with two tabs: the room, the sockets connecting,
\* joining and dropping, the grace expiry, POST /game/:code/start and /end
NextTabs ==
  \/ createRoom_findOne(RoomRun, "u1", 0, 0)
  \/ \E t \in TaskIds : createRoom_save(t)
  \/ joinRoom_findOne(RoomRun, "u2")
  \/ \E t \in TaskIds : joinRoom_save(t) \/ joinRoom_populate(t)
  \/ \E s \in Tabs : on_connection(RoomRun, s)
  \/ \E s \in Tabs : on_join_room(RoomRun, s)
  \/ \E t \in TaskIds : on_join_room_findOne(t)
  \/ \E s \in Tabs : on_disconnect(RoomRun, s)
  \/ \E t \in TaskIds : on_disconnect_find(t)
  \/ \E t \in TaskIds : on_disconnect_saveParticipants(t) \/ on_disconnect_populate(t)
  \/ \E u \in Users : handleGracePeriodExpiry(RoomRun, u)
  \/ \E t \in TaskIds : handleGracePeriodExpiry_findOne(t)
  \/ \E t \in TaskIds : handleGracePeriodExpiry_save(t) \/ handleGracePeriodExpiry_populate(t)
  \/ \E t \in TaskIds : transferHostIfNeeded_updateOne(t) \/ transferHostIfNeeded_findById(t)
  \/ \E t \in TaskIds : cascade_deleteRoomProblems(t)
  \/ \E t \in TaskIds : cascade_deleteScores(t)
  \/ \E t \in TaskIds : cascade_deleteRoom(t)
  \/ AdvanceToDeadline(RoomRun)
  \/ HttpEnd(RoomRun)
SpecTabs == Init /\ [][NextTabs]_vars

\* the problems a user may submit to or ask to be checked
Picks == { p \in JudgeProblems : p.rating # 0 /\ p.rating <= DefaultMaxRating }

EasyPick == { p \in Picks : p.rating = DefaultMinRating }

\* the steps by which the clock may advance
TickSteps == { MsPerSecond, DurationMs }

\* a room and its players: create, join, the socket session
Lobby(c, socks) ==
  \/ createRoom_findOne(c, "u1", 0, 0)
  \/ \E t \in TaskIds : createRoom_save(t)
  \/ joinRoom_findOne(c, "u2")
  \/ \E t \in TaskIds : joinRoom_save(t) \/ joinRoom_populate(t)
  \/ \E s \in socks : on_connection(c, s)

\* PUT /rooms/:code/settings
Settings(c) ==
  \/ \E minIn, maxIn \in RatingInputs : updateSettings_findOne(c, "u1", minIn, maxIn, 0, 0)
  \/ \E t \in TaskIds : updateSettings_save(t) \/ updateSettings_populateHost(t) \/ updateSettings_populateParticipants(t)

\* socket start-game, the end timer and its sweep
SocketGame(c, socks) ==
  \/ \E s \in socks : on_start_game(c, s)
  \/ \E t \in TaskIds : startGameInternal_findOne(t)
  \/ \E t \in TaskIds, ok \in BOOLEAN, lo, up \in JudgeProblems \cup { NoProblem } :
       startGameInternal_fetch(t, ok, lo, up)
  \/ \E t \in TaskIds : startGameInternal_deleteMany(t)
  \/ \E t \in TaskIds, idx \in { 1, 2 } : startGameInternal_create(t, idx)
  \/ \E t \in TaskIds : startGameInternal_save(t)
  \/ handleGameEnd(c)
  \/ \E t \in TaskIds : autoCheckAllSubmissionsInternal_findOne(t)
  \/ \E t \in TaskIds : autoCheckAllSubmissionsInternal_findProblems(t)
  \/ \E t \in TaskIds : autoCheckAllSubmissionsInternal_delay(t)
  \/ \E t \in TaskIds, ok \in BOOLEAN : autoCheckAllSubmissionsInternal_fetch(t, ok)
  \/ \E t \in TaskIds : autoCheckAllSubmissionsInternal_findScore(t)
  \/ \E t \in TaskIds : autoCheckAllSubmissionsInternal_create(t)
  \/ \E t \in TaskIds : autoCheckAllSubmissionsInternal_save(t)
  \/ \E t \in TaskIds : autoCheckAllSubmissionsInternal_aggregate(t)

\* a game has been started in the room
GameOn == \E r \in rooms : r.startTime # NullTime

\* the judge and the clock, from the start of a game on
Environment(c, users, picks, verdicts, steps) ==
  \/ GameOn /\ \E u \in users, p \in picks, verdict \in verdicts : Submit(c, u, p, verdict)
  \/ GameOn /\ \E d \in steps : Tick(c, d)
  \/ AdvanceToDeadline(c)

\* socket check-problem and POST /game/:code/check
Checks(c, socks, users, picks) ==
  \/ \E s \in socks, p \in picks : on_check_problem(c, s, p)
  \/ \E t \in TaskIds : checkSubmissionInternal_findOne(t)
  \/ \E t \in TaskIds : checkSubmissionInternal_findProblem(t)
  \/ \E t \in TaskIds : checkSubmissionInternal_findScore(t)
  \/ \E t \in TaskIds, ok \in BOOLEAN : checkSubmissionInternal_fetch(t, ok)
  \/ \E t \in TaskIds : checkSubmissionInternal_create(t)
  \/ \E t \in TaskIds : getLeaderboardInternal_findOne(t)
  \/ \E t \in TaskIds : getLeaderboardInternal_aggregate(t)
  \/ \E t \in TaskIds : on_check_problem_emit(t)
  \/ \E u \in users, p \in picks : checkSubmission_findOne(c, u, p)
  \/ \E t \in TaskIds : checkSubmission_findProblem(t)
  \/ \E t \in TaskIds : checkSubmission_findScore(t)
  \/ \E t \in TaskIds, ok \in BOOLEAN : checkSubmission_fetch(t, ok)
  \/ \E t \in TaskIds : checkSubmission_create(t)
  \/ \E t \in TaskIds : checkSubmission_aggregate(t)

\* starting a game: the settings, socket start-game, POST /game/:code/start,
\* the end timer and its sweep
NextStart ==
  \/ Lobby(GameRun, { "s1", "s2" }) \/ Settings(GameRun)
  \/ SocketGame(GameRun, { "s1", "s2" }) \/ HttpStart(GameRun)
  \/ Environment(GameRun, { "u1" }, EasyPick, { "OK" }, { MsPerSecond })
SpecStart == Init /\ [][NextStart]_vars

\* starting and ending a game: the above and POST /game/:code/end
NextGame == NextStart \/ HttpEnd(GameRun)
SpecGame == Init /\ [][NextGame]_vars

NextScore ==
  \/ Lobby(ScoreRun, { "s1" }) \/ SocketGame(ScoreRun, { "s1" }) \/ HttpStart(ScoreRun)
  \/ Checks(ScoreRun, { "s1" }, { "u1" }, EasyPick)
  \/ Environment(ScoreRun, { "u1" }, EasyPick, { "OK" }, TickSteps)
SpecScore == Init /\ [][NextScore]_vars

\* the continuation of handler t of the game after the call it awaits has
\* returned (the judge answers, well or badly)
GameStep(t) ==
  \/ createRoom_save(t) \/ joinRoom_save(t) \/ joinRoom_populate(t) \/ updateSettings_save(t) \/ updateSettings_populateHost(t) \/ updateSettings_populateParticipants(t)
  \/ startGameInternal_findOne(t)
  \/ \E ok \in BOOLEAN, lo, up \in JudgeProblems \cup { NoProblem } :
       startGameInternal_fetch(t, ok, lo, up)
  \/ startGameInternal_deleteMany(t)
  \/ \E idx \in { 1, 2 } : startGameInternal_create(t, idx)
  \/ startGameInternal_save(t)
  \/ \E lo, up \in JudgeProblems \cup { NoProblem } : startGame_fetch(t, TRUE, lo, up)
  \/ \E idx \in { 1, 2 } : startGame_create(t, idx)
  \/ startGame_save(t)
  \/ endGame_save(t)
  \/ autoCheckAllSubmissionsInternal_findOne(t)
  \/ autoCheckAllSubmissionsInternal_findProblems(t)
  \/ autoCheckAllSubmissionsInternal_delay(t)
  \/ \E ok \in BOOLEAN : autoCheckAllSubmissionsInternal_fetch(t, ok)
  \/ autoCheckAllSubmissionsInternal_findScore(t)
  \/ autoCheckAllSubmissionsInternal_create(t)
  \/ autoCheckAllSubmissionsInternal_save(t)
  \/ autoCheckAllSubmissionsInternal_aggregate(t)

\* the game with the process staying up: an awaited call returns and its
\* handler goes on, time passes until the next timer is due, and the end timer
\* that is due runs handleGameEnd
NextGameFair == NextGame \/ TimerWait
GameFairness ==
  /\ \A t \in TaskIds : WF_vars(GameStep(t))
  /\ WF_vars(TimerWait)
  /\ WF_vars(handleGameEnd(GameRun))
SpecGameFair == Init /\ [][NextGameFair]_vars /\ GameFairness

\* a game started over the socket, POST /game/:code/end, the end timer and the
\* sweep with a store that may fail during it, the process staying up
NextSweepFair ==
  \/ Lobby(SweepRun, { "s1" }) \/ SocketGame(SweepRun, { "s1" }) \/ HttpEnd(SweepRun)
  \/ GameOn /\ \E p \in EasyPick : Submit(SweepRun, "u1", p, "OK")
  \/ \E t \in TaskIds : autoCheckAllSubmissionsInternal_storeError(t)
  \/ TimerWait
SpecSweepFair ==
  /\ Init /\ [][NextSweepFair]_vars
  /\ \A t \in TaskIds : WF_vars(GameStep(t))
  /\ WF_vars(TimerWait)
  /\ WF_vars(handleGameEnd(SweepRun))

\* the process stops and starts again: the handlers in progress are gone, the
\* module state of sockets/index.js is empty again, every socket is closed;
\* the bootstrap connects to the store, mounts the routes and runs initSockets,
\* which starts the timer-sync interval and registers the handlers
Restart(c) ==
  /\ ops < c.maxOps
  /\ ops' = ops + 1
  /\ tasks' = [ t \in TaskIds |-> Idle ]
  /\ activeGameRooms' = {}
  /\ gameTimers' = NoTimer
  /\ disconnectedPlayers' = [ u \in Users |-> NoTicket ]
  /\ userSockets' = [ u \in Users |-> {} ]
  /\ channel' = {}
  /\ syncDue' = now + SyncEvery
  /\ UNCHANGED << dbVars, now, judgeSubs, ticks >> /\ Silent

\* a game started over the socket, the end timer and the sweep, with restarts
\* of the process, which then stays up
NextRestartFair ==
  \/ Lobby(SweepRun, { "s1" }) \/ SocketGame(SweepRun, { "s1" })
  \/ GameOn /\ \E p \in EasyPick : Submit(SweepRun, "u1", p, "OK")
  \/ TimerWait
  \/ Restart(SweepRun)
SpecRestartFair ==
  /\ Init /\ [][NextRestartFair]_vars
  /\ \A t \in TaskIds : WF_vars(GameStep(t))
  /\ WF_vars(TimerWait)
  /\ WF_vars(handleGameEnd(SweepRun))

\* the end of a game run twice over: a room, its game, the judge, the timer
\* and a second call of handleGameEnd, one handler at a time
NextReplay ==
  \/ Lobby(TeardownRun, { "s1" }) \/ SocketGame(TeardownRun, { "s1" })
  \/ GameOn /\ \E u \in Users, p \in EasyPick : Submit(TeardownRun, u, p, "OK")
  \/ TimerWait
  \/ handleGameEnd_replay(TeardownRun)
SpecReplay == Init /\ [][NextReplay]_vars

\* the time of the game in the room is over
Late == \E r \in rooms : r.startTime # NullTime /\ now > r.startTime + DurationMs

\* a game of two players started over the socket and swept at its end timer,
\* the judge answering every call; submissions are made during the game, at
\* its last instant and, while the sweep pauses between two players, after it
NextSweepAll ==
  \/ Lobby(GraceRun, { "s1" })
  \/ on_start_game(GraceRun, "s1")
  \/ \E t \in TaskIds : startGameInternal_findOne(t) \/ startGameInternal_deleteMany(t)
  \/ \E t \in TaskIds, lo, up \in JudgeProblems : startGameInternal_fetch(t, TRUE, lo, up)
  \/ \E t \in TaskIds, idx \in { 1, 2 } : startGameInternal_create(t, idx)
  \/ \E t \in TaskIds : startGameInternal_save(t)
  \/ handleGameEnd(GraceRun)
  \/ \E t \in TaskIds : autoCheckAllSubmissionsInternal_findOne(t)
  \/ \E t \in TaskIds : autoCheckAllSubmissionsInternal_findProblems(t)
  \/ \E t \in TaskIds : autoCheckAllSubmissionsInternal_delay(t)
  \/ \E t \in TaskIds : autoCheckAllSubmissionsInternal_fetch(t, TRUE)
  \/ \E t \in TaskIds : autoCheckAllSubmissionsInternal_findScore(t)
  \/ \E t \in TaskIds : autoCheckAllSubmissionsInternal_create(t)
  \/ \E t \in TaskIds : autoCheckAllSubmissionsInternal_save(t)
  \/ \E t \in TaskIds : autoCheckAllSubmissionsInternal_aggregate(t)
  \/ GameOn /\ \E u \in { "u1", "u2" }, p \in EasyPick : Submit(GraceRun, u, p, "OK")
  \/ Late /\ \E p \in EasyPick : Submit(SweepRun, "u2", p, "OK")
  \/ GameOn /\ Tick(GraceRun, MsPerMinute)
  \/ TimerWait
SpecSweepAll == Init /\ [][NextSweepAll]_vars

\* the same game with a judge that may fail for any player and a store that
\* may fail at any call inside the loop over the players
NextSweepSkip ==
  \/ Lobby(GraceRun, { "s1" })
  \/ on_start_game(GraceRun, "s1")
  \/ \E t \in TaskIds : startGameInternal_findOne(t) \/ startGameInternal_deleteMany(t)
  \/ \E t \in TaskIds, lo, up \in JudgeProblems : startGameInternal_fetch(t, TRUE, lo, up)
  \/ \E t \in TaskIds, idx \in { 1, 2 } : startGameInternal_create(t, idx)
  \/ \E t \in TaskIds : startGameInternal_save(t)
  \/ handleGameEnd(GraceRun)
  \/ \E t \in TaskIds : autoCheckAllSubmissionsInternal_findOne(t)
  \/ \E t \in TaskIds : autoCheckAllSubmissionsInternal_findProblems(t)
  \/ \E t \in TaskIds : autoCheckAllSubmissionsInternal_delay(t)
  \/ \E t \in TaskIds, ok \in BOOLEAN : autoCheckAllSubmissionsInternal_fetch(t, ok)
  \/ \E t \in TaskIds : autoCheckAllSubmissionsInternal_findScore(t)
  \/ \E t \in TaskIds : autoCheckAllSubmissionsInternal_create(t)
  \/ \E t \in TaskIds : /\ tasks[t].pc \in { "findScore", "create" }
                         /\ autoCheckAllSubmissionsInternal_storeError(t)
  \/ \E t \in TaskIds : autoCheckAllSubmissionsInternal_save(t)
  \/ \E t \in TaskIds : autoCheckAllSubmissionsInternal_aggregate(t)
  \/ GameOn /\ \E u \in { "u1", "u2" }, p \in EasyPick :
                 UserStatus(Handle(u)) = {} /\ Submit(GraceRun, u, p, "OK")
  \/ TimerWait
SpecSweepSkip == Init /\ [][NextSweepSkip]_vars

\* a game of one player who has solved both problems and sends check-problem
\* for them, the checks overlapping
NextStale ==
  \/ createRoom_findOne(ScoreRun, "u1", 0, 0) \/ on_connection(ScoreRun, "s1")
  \/ \E t \in TaskIds : createRoom_save(t)
  \/ HttpStart(ScoreRun)
  \/ \E p \in Picks : on_check_problem(ScoreRun, "s1", p)
  \/ \E t \in TaskIds : checkSubmissionInternal_findOne(t)
  \/ \E t \in TaskIds : checkSubmissionInternal_findProblem(t)
  \/ \E t \in TaskIds : checkSubmissionInternal_findScore(t)
  \/ \E t \in TaskIds : checkSubmissionInternal_fetch(t, TRUE)
  \/ \E t \in TaskIds : checkSubmissionInternal_create(t)
  \/ \E t \in TaskIds : getLeaderboardInternal_findOne(t) \/ getLeaderboardInternal_aggregate(t)
  \/ \E t \in TaskIds : on_check_problem_emit(t)
  \/ GameOn /\ \E p \in Picks : Submit(ScoreRun, "u1", p, "OK")
  \/ GameOn /\ Tick(ScoreRun, MsPerSecond)
SpecStale == Init /\ [][NextStale]_vars

\* a game of the host alone, and a signed-in user who has not joined the
\* room: a session, accepted submissions and check-problem for the room
NextOutsider ==
  \/ createRoom_findOne(GraceRun, "u1", 0, 0) \/ on_connection(GraceRun, "s2")
  \/ \E t \in TaskIds : createRoom_save(t)
  \/ HttpStart(GraceRun)
  \/ \E p \in Picks : on_check_problem(GraceRun, "s2", p)
  \/ \E t \in TaskIds : checkSubmissionInternal_findOne(t)
  \/ \E t \in TaskIds : checkSubmissionInternal_findProblem(t)
  \/ \E t \in TaskIds : checkSubmissionInternal_findScore(t)
  \/ \E t \in TaskIds, ok \in BOOLEAN : checkSubmissionInternal_fetch(t, ok)
  \/ \E t \in TaskIds : checkSubmissionInternal_create(t)
  \/ \E t \in TaskIds : getLeaderboardInternal_findOne(t) \/ getLeaderboardInternal_aggregate(t)
  \/ \E t \in TaskIds : on_check_problem_emit(t)
  \/ GameOn /\ \E p \in Picks : Submit(GraceRun, SocketUser("s2"), p, "OK")
  \/ GameOn /\ Tick(GraceRun, MsPerSecond)
SpecOutsider == Init /\ [][NextOutsider]_vars

\* a problem the room gets with its default settings and one above its range
AskedProblems == { p \in JudgeProblems : p.rating = DefaultMinRating \/ p.rating > DefaultMaxRating }

\* check-problem by the host for any problem of the judge, in or out of the
\* room, with submissions accepted or not, at the start of the game and later
NextEarliest ==
  \/ createRoom_findOne(GraceRun, "u1", 0, 0) \/ on_connection(GraceRun, "s1")
  \/ \E t \in TaskIds : createRoom_save(t)
  \/ HttpStart(GraceRun)
  \/ \E p \in AskedProblems : on_check_problem(GraceRun, "s1", p)
  \/ \E t \in TaskIds : checkSubmissionInternal_findOne(t) \/ checkSubmissionInternal_findProblem(t)
  \/ \E t \in TaskIds : checkSubmissionInternal_findScore(t) \/ checkSubmissionInternal_create(t)
  \/ \E t \in TaskIds, ok \in BOOLEAN : checkSubmissionInternal_fetch(t, ok)
  \/ \E t \in TaskIds : getLeaderboardInternal_findOne(t) \/ getLeaderboardInternal_aggregate(t)
  \/ \E t \in TaskIds : on_check_problem_emit(t)
  \/ GameOn /\ \E p \in AskedProblems, verdict \in Verdicts : Submit(GraceRun, "u1", p, verdict)
  \/ GameOn /\ Tick(GraceRun, MsPerSecond)
SpecEarliest == Init /\ [][NextEarliest]_vars

\* a game whose solves are scored over the socket, over HTTP and by the sweep
\* at the end timer, one handler at a time
NextScoring ==
  \/ Lobby(GraceRun, { "s1" }) \/ SocketGame(GraceRun, { "s1" })
  \/ Checks(GraceRun, { "s1" }, { "u2" }, Picks)
  \/ GameOn /\ \E u \in { "u1", "u2" } : \E p \in IF u = "u1" THEN Picks ELSE EasyPick :
                 UserStatus(Handle(u)) = {} /\ Submit(GraceRun, u, p, "OK")
  \/ GameOn /\ Tick(GraceRun, MsPerMinute)
  \/ TimerWait
SpecScoring == Init /\ [][NextScoring]_vars

\* the minutes by which the clock may advance between two solves
PointSteps == { 1, 50 }

\* two players solving the first problem of a game, each with one submission,
\* at different times, each solve checked over HTTP, one handler at a time
NextPoints ==
  \/ createRoom_findOne(GraceRun, "u1", 0, 0) \/ joinRoom_findOne(GraceRun, "u2")
  \/ \E t \in TaskIds : createRoom_save(t) \/ joinRoom_save(t) \/ joinRoom_populate(t)
  \/ HttpStart(GraceRun)
  \/ \E u \in { "u1", "u2" }, p \in EasyPick : checkSubmission_findOne(GraceRun, u, p)
  \/ \E t \in TaskIds : checkSubmission_findProblem(t) \/ checkSubmission_findScore(t)
  \/ \E t \in TaskIds : checkSubmission_fetch(t, TRUE)
  \/ \E t \in TaskIds : checkSubmission_create(t) \/ checkSubmission_aggregate(t)
  \/ GameOn /\ \E u \in { "u1", "u2" }, p \in EasyPick :
                 UserStatus(Handle(u)) = {} /\ Submit(GraceRun, u, p, "OK")
  \/ GameOn /\ \E m \in PointSteps : Tick(GraceRun, m * MsPerMinute)
SpecPoints == Init /\ [][NextPoints]_vars

\* values a request body may carry for questionCount / duration (0: absent)
CountInputs == { 0, 5 }
DurationInputs == { 0, 30 }

\* the settings asked for by the host and by another player, before, during
\* and after a game and while a player leaves, handlers overlapping at their
\* awaits
NextSettings ==
  \/ Lobby(GameRun, { "s1" }) \/ HttpStart(GameRun) \/ HttpEnd(GameRun)
  \/ \E u \in { "u1", "u2" } : leaveRoom_findOne(GameRun, u)
  \/ \E t \in TaskIds : leaveRoom_saveParticipants(t)
  \/ \E t \in TaskIds : leaveRoom_saveHost(t) \/ leaveRoom_findById(t) \/ leaveRoom_populate(t)
  \/ \E t \in TaskIds : cascade_deleteRoomProblems(t) \/ cascade_deleteScores(t) \/ cascade_deleteRoom(t)
  \/ \E u \in { "u1", "u2" }, minIn, maxIn \in RatingInputs,
        countIn \in CountInputs, durationIn \in DurationInputs :
       updateSettings_findOne(GameRun, u, minIn, maxIn, countIn, durationIn)
  \/ \E t \in TaskIds : updateSettings_save(t) \/ updateSettings_populateHost(t) \/ updateSettings_populateParticipants(t)
SpecSettings == Init /\ [][NextSettings]_vars

\* starting a game over the socket with the settings the host chose, one
\* handler at a time; the judge may fail
NextStartSeq ==
  \/ Lobby(GraceRun, { "s1" }) \/ Settings(GraceRun)
  \/ SocketGame(GraceRun, { "s1" })
  \/ GameOn /\ \E p \in EasyPick : Submit(GraceRun, "u1", p, "OK")
  \/ TimerWait
SpecStartSeq == Init /\ [][NextStartSeq]_vars

\* the continuation of a check after the call it awaits has returned
CheckStep(t) ==
  \/ createRoom_save(t) \/ startGame_save(t)
  \/ \E lo, up \in JudgeProblems \cup { NoProblem } : startGame_fetch(t, TRUE, lo, up)
  \/ \E idx \in { 1, 2 } : startGame_create(t, idx)
  \/ checkSubmissionInternal_findOne(t) \/ checkSubmissionInternal_findProblem(t)
  \/ checkSubmissionInternal_findScore(t)
  \/ \E ok \in BOOLEAN : checkSubmissionInternal_fetch(t, ok)
  \/ checkSubmissionInternal_create(t)
  \/ getLeaderboardInternal_findOne(t) \/ getLeaderboardInternal_aggregate(t)
  \/ on_check_problem_emit(t)
  \/ checkSubmission_findProblem(t) \/ checkSubmission_findScore(t)
  \/ \E ok \in BOOLEAN : checkSubmission_fetch(t, ok)
  \/ checkSubmission_create(t) \/ checkSubmission_aggregate(t)
  \/ endGame_save(t)

\* checks of one player over the socket and over HTTP, one handler at a time,
\* in a game that may be ended meanwhile; every awaited call returns
NextCheckFair ==
  \/ Lobby(GraceRun, { "s1" }) \/ HttpStart(GraceRun) \/ HttpEnd(GraceRun)
  \/ Checks(GraceRun, { "s1" }, { "u1" }, EasyPick)
  \/ GameOn /\ \E p \in EasyPick : Submit(GraceRun, "u1", p, "OK")
  \/ GameOn /\ Tick(GraceRun, MsPerSecond)
SpecCheckFair ==
  /\ Init /\ [][NextCheckFair]_vars
  /\ \A t \in TaskIds : WF_vars(CheckStep(t))

\* the ways out of a room: POST /rooms/:code/leave, socket leave-room, the
\* drop of a session and its grace expiry, DELETE /rooms/:code
Leaving(c, users, socks) ==
  \/ \E u \in users : leaveRoom_findOne(c, u)
  \/ \E t \in TaskIds : leaveRoom_saveParticipants(t)
  \/ \E t \in TaskIds : leaveRoom_saveHost(t) \/ leaveRoom_findById(t) \/ leaveRoom_populate(t)
  \/ \E s \in socks : on_leave_room(c, s)
  \/ \E t \in TaskIds : on_leave_room_findOneAndUpdate(t)
  \/ \E t \in TaskIds : transferHostIfNeeded_updateOne(t) \/ transferHostIfNeeded_findById(t)
  \/ \E s \in socks : on_disconnect(c, s)
  \/ \E t \in TaskIds : on_disconnect_find(t)
  \/ \E t \in TaskIds : on_disconnect_saveParticipants(t) \/ on_disconnect_populate(t)
  \/ \E u \in users : handleGracePeriodExpiry(c, u)
  \/ \E t \in TaskIds : handleGracePeriodExpiry_findOne(t)
  \/ \E t \in TaskIds : handleGracePeriodExpiry_save(t) \/ handleGracePeriodExpiry_populate(t)
  \/ \E t \in TaskIds : cascade_deleteRoomProblems(t)
  \/ \E t \in TaskIds : cascade_deleteScores(t)
  \/ \E t \in TaskIds : cascade_deleteRoom(t)
  \/ deleteRoom_findOne(c, "u1")
  \/ \E t \in TaskIds : deleteRoom_deleteOne(t)

\* a game started over the socket and every way it or its room comes to an end
NextTeardown ==
  \/ Lobby(TeardownRun, { "s1" }) \/ SocketGame(TeardownRun, { "s1" })
  \/ HttpEnd(TeardownRun) \/ Leaving(TeardownRun, { "u1", "u2" }, { "s1" })
  \/ Environment(TeardownRun, { "u1" }, EasyPick, { "OK" }, { MsPerSecond })
SpecTeardown == Init /\ [][NextTeardown]_vars

(***************************************************************************)
(* Properties of the game and of the scores.                               *)
(***************************************************************************)
\* the room document with this _id after the step
After(r) == { r2 \in rooms' : r2.id = r.id }

\* C1: a room's status changes only waiting -> started and started -> ended;
\* once it is ended no operation changes it again.
C1_StatusMonotone ==
  [][\A r \in rooms : \A r2 \in After(r) :
       \/ r2.status = r.status
       \/ r.status = "waiting" /\ r2.status = "started"
       \/ r.status = "started" /\ r2.status = "ended"]_vars

\* C2: there is at most one Score row per (room, user, contestId, index).
C2_OneScorePerProblem ==
  \A i, j \in 1 .. Len(scores) :
    ( /\ scores[i].roomId = scores[j].roomId
      /\ scores[i].userId = scores[j].userId
      /\ scores[i].contestId = scores[j].contestId
      /\ scores[i].index = scores[j].index ) => i = j

\* C3: every Score of a room was solved after the room's start instant and
\* not after the start instant plus the duration.
C3_SolvedInsideWindow ==
  \A k \in 1 .. Len(scores) : \A r \in rooms :
    r.id = scores[k].roomId =>
      /\ r.startTime < scores[k].solvedAt
      /\ scores[k].solvedAt <= r.startTime + DurationMs

\* C4: a room's start instant is non-null if and only if its status is
\* started or ended.
C4_StartTimeIffStarted ==
  \A r \in rooms : (r.startTime # NullTime) <=> (r.status \in { "started", "ended" })

\* C5: once the start requests issued so far have run to completion, a room
\* has exactly 2 RoomProblems if and only if its status is started or ended,
\* and none while it is waiting.
C5_TwoProblemsIffStarted ==
  AllIdle => \A r \in rooms :
    /\ (Len(RowsOf(roomProblems, r.id)) = 2) <=> (r.status \in { "started", "ended" })
    /\ r.status = "waiting" => RowsOf(roomProblems, r.id) = << >>

\* C6: for every room in status started, every RoomProblem's rating lies in
\* [minRating, maxRating] of the room's persisted settings.
C6_RatingsInsideSettings ==
  \A r \in rooms :
    r.status = "started" =>
      \A k \in 1 .. Len(roomProblems) :
        roomProblems[k].roomId = r.id =>
          /\ r.minRating <= roomProblems[k].rating
          /\ roomProblems[k].rating <= r.maxRating

(***************************************************************************)
(* Properties of the membership and of the host.                           *)
(***************************************************************************)
\* C7: for every existing room, in every status, the host is a member of the
\* participant set once the join, leave, disconnect and grace-expiry handlers
\* issued so far have run to completion.
C7_HostIsParticipant ==
  AllIdle => \A r \in rooms : r.host \in Range(r.participants)

\* C8: for every room in status waiting, the host is a member of the
\* participant set once the interleaved leaves and grace expiries of different
\* participants have run to completion.
C8_WaitingHostIsParticipant ==
  AllIdle => \A r \in rooms : r.status = "waiting" => r.host \in Range(r.participants)

\* C9: a waiting room at rest is never left without its host: its host is
\* the first participant in insertion order, so a host who left with somebody
\* remaining has been replaced by the first remaining participant.  Every
\* step that changes Room.host installs the first remaining participant; and
\* the handler's next step, once the new host's user record is read,
\* publishes host-changed with the stored host, the first participant, as
\* newHost and the handle of the leaver as previousHost.
C9_HostGoesToFirstRemaining ==
  /\ [](AllIdle => \A r \in rooms :
          r.status = "waiting" => r.participants # << >> /\ r.host = Head(r.participants))
  /\ [][\A r \in rooms : \A r2 \in After(r) :
          r2.host # r.host =>
            /\ r2.participants # << >>
            /\ r2.host = Head(r2.participants)]_vars
  /\ [][\A t \in TaskIds :
          ( /\ tasks[t].pc \in { "findById", "findNewHost" }
            /\ tasks'[t].pc # tasks[t].pc ) =>
          /\ rooms # {}
          /\ \A r \in rooms :
               /\ r.host = Head(r.participants)
               /\ EvHostChanged(r.host, Handle(tasks[t].user)) \in published']_vars

\* C10: from a state in which the room's status is started or ended, no step
\* of a leave, disconnect or grace expiry (nor any other step) changes the
\* host of that room or publishes host-changed.
C10_NoTransferOnceStarted ==
  [][\A r \in rooms :
       r.status \in { "started", "ended" } =>
         /\ \A r2 \in After(r) : r2.host = r.host
         /\ \A e \in published' : e.type # "host-changed"]_vars

(***************************************************************************)
(* Properties of the cascade delete and of the grace tickets.              *)
(***************************************************************************)
\* C11: no state of the store holds a room whose participant list is empty,
\* and no RoomProblem or Score row outlives its room: a removal that empties
\* the room removes the room and its rows in one step.
C11_NoEmptyRoomNoResidue ==
  /\ \A r \in rooms : r.participants # << >>
  /\ \A k \in 1 .. Len(roomProblems) : Stored(roomProblems[k].roomId) # {}
  /\ \A k \in 1 .. Len(scores) : Stored(scores[k].roomId) # {}

\* C12: a participant of a room who has at least one registered session has
\* no grace ticket pending for that room.
C12_NoTicketWhileConnected ==
  \A r \in rooms : \A p \in Range(r.participants) :
    userSockets[p] # {} => ~disconnectedPlayers[p].armed

\* the last session of u dropped and its grace period has not elapsed: the
\* disconnect handler is looking the rooms of u up, or the ticket is pending
Dropped(u) ==
  \/ \E t \in TaskIds : At(t, "disconnect", "find") /\ tasks[t].user = u
  \/ disconnectedPlayers[u].armed

\* u has a session subscribed to the room's topic (its join-room was accepted)
Joined(u) == \E s \in channel : SocketUser(s) = u

\* C13: a join-room of a participant whose last session dropped, accepted
\* before the grace period elapsed, publishes player-reconnected; and the grace
\* expiry of that disconnect, which would remove the user and publish
\* player-left, never runs for a user whose session has joined the room,
\* however the disconnect handler and the join-room interleave.
C13_ReconnectKeepsParticipant ==
  /\ [][\A t \in TaskIds : \A u \in Range(FindRoom.participants) :
          ( /\ tasks[t].pc = "idle"
            /\ tasks'[t].kind = "join-room"
            /\ tasks'[t].user = u
            /\ Dropped(u) ) =>
          EvPlayerReconnected(u, Handle(u)) \in published']_vars
  /\ [][\A t \in TaskIds : \A u \in Range(FindRoom.participants) :
          ( /\ tasks[t].pc = "idle"
            /\ tasks'[t].kind = "gracePeriodExpiry"
            /\ tasks'[t].user = u ) =>
          ~Joined(u)]_vars

\* C14: when the disconnect handler of a user's last session finds the user
\* in a waiting or started room, it opens a grace ticket due after 15 s
\* (waiting) or 60 s (started) and publishes
\* player-disconnected with that grace period in seconds; and a participant
\* with a pending ticket who neither reconnects (a new session, whose own
\* drop would run the disconnect handler again) nor leaves is eventually
\* removed from the participants with player-left published, or the room is
\* deleted.
C14_DroppedUserIsRemoved ==
  /\ [][\A t \in TaskIds : \A r \in rooms :
          LET u == tasks[t].user
              g == IF r.status = "started" THEN GRACE_PERIOD_GAME ELSE GRACE_PERIOD_ROOM
          IN ( /\ At(t, "disconnect", "find")
               /\ tasks'[t].pc = "idle"
               /\ u \in Range(r.participants)
               /\ r.status \in { "waiting", "started" } ) =>
             /\ disconnectedPlayers'[u].armed
             /\ disconnectedPlayers'[u].deadline = now + g
             /\ EvPlayerDisconnected(u, Handle(u), g \div MsPerSecond) \in published']_vars
  /\ \A u \in Users :
       (disconnectedPlayers[u].armed /\ u \in Range(FindRoom.participants))
         ~> \/ /\ u \notin Range(FindRoom.participants)
               /\ EvPlayerLeft(u, Handle(u)) \in published
            \/ rooms = {}
            \/ userSockets[u] # {}
            \/ \E t \in TaskIds : tasks[t].kind \in { "leaveRoom", "disconnect" } /\ tasks[t].user = u

\* C15: no grace ticket of a user remains pending when a leave of that user
\* (socket leave-room or POST /rooms/:code/leave) has completed (its last step,
\* holding the document without the user) and removed the user, nor when a join-room of that user has been accepted; and no grace
\* ticket of any user remains pending when the room has been cascade-deleted.
C15_TicketsCancelled ==
  /\ [][\A t \in TaskIds :
          LET u == tasks[t].user IN
          ( /\ tasks[t].kind \in { "leaveRoom", "leave-room" }
            /\ tasks'[t].pc = "idle"
            /\ u \notin Range(tasks[t].room.participants)
            /\ \A r2 \in rooms' : u \notin Range(r2.participants) ) =>
          ~disconnectedPlayers'[u].armed]_vars
  /\ [][\A t \in TaskIds :
          (tasks[t].pc = "idle" /\ tasks'[t].kind = "join-room") =>
          ~disconnectedPlayers'[tasks'[t].user].armed]_vars
  /\ [][(rooms # {} /\ rooms' = {}) =>
          \A u \in Users : ~disconnectedPlayers'[u].armed]_vars

\* C16: a step in which a session of a user is dropped while another session
\* of the same user stays registered opens or changes no grace ticket,
\* publishes no player-disconnected, changes no room and starts no handler.
C16_OtherTabKeepsUser ==
  [][\A u \in Users :
       ( /\ userSockets'[u] # {}
         /\ userSockets'[u] # userSockets[u]
         /\ userSockets'[u] \subseteq userSockets[u] ) =>
       /\ disconnectedPlayers' = disconnectedPlayers
       /\ \A e \in published' : e.type # "player-disconnected"
       /\ rooms' = rooms
       /\ tasks' = tasks]_vars

\* alice, in a room, has dropped the tab s1 and keeps the tab s4, which has
\* joined the room: she has no ticket
C16_Witness ==
  /\ \E r \in rooms : "u1" \in Range(r.participants)
  /\ userSockets["u1"] = { "s4" }
  /\ "s4" \in channel
  /\ ~disconnectedPlayers["u1"].armed
  /\ AllIdle
  /\ ops = 5

(***************************************************************************)
(* Properties of the game runtime: the end timer and the timer-sync set.   *)
(***************************************************************************)
\* C17: whenever the stored status of a room is started, the room's code is in
\* the set that receives timer-sync and its end timer is armed, or has fired
\* and its finalization is in progress.
C17_StartedHasRuntime ==
  \A r \in rooms :
    r.status = "started" =>
      /\ RoomCode \in activeGameRooms
      /\ gameTimers.armed \/ \E t \in TaskIds : tasks[t].kind = "gameEnd"

\* C18: once the operation that ended or deleted a room has completed, no end
\* timer is armed for the room's code and the code is not in the set that
\* receives timer-sync.
C18_NoRuntimeAfterEnd ==
  (AllIdle /\ \A r \in rooms : r.status = "ended") =>
    /\ ~gameTimers.armed
    /\ RoomCode \notin activeGameRooms

\* C19: with the process staying up, a room whose stored status is started
\* eventually has status ended or is deleted.
C19_StartedEventuallyEnds ==
  (\E r \in rooms : r.status = "started")
    ~> (rooms = {} \/ \E r \in rooms : r.status = "ended")

\* C20: once the end timer of a room has fired, game-ended is eventually
\* published, whatever the judge answers, whether or not the store fails
\* during the sweep, the room is already ended or the leaderboard is empty.
C20_GameEndedAlwaysPublished ==
  (\E t \in TaskIds : tasks[t].kind = "gameEnd")
    ~> (\E e \in published : e.type = "game-ended" /\ e.to = "room")

\* the end timer fired for a room that POST /game/:code/end had ended, and
\* game-ended is published with the empty leaderboard
C20_Witness ==
  /\ EvGameEnded(<< >>) \in published
  /\ \E r \in rooms : r.status = "ended"
  /\ now >= DurationMs
  /\ ops = MaxOpsSweep

(***************************************************************************)
(* Properties of the restart, the finalization and the checks.             *)
(***************************************************************************)
\* C21: also after a restart of the process, a stored room in status started
\* has its end timer armed (or fired, with the finalization in progress), and
\* is eventually finalized with game-ended published.
C21_RestartRearmsTimer ==
  /\ [](\A r \in rooms :
          r.status = "started" =>
            gameTimers.armed \/ \E t \in TaskIds : tasks[t].kind = "gameEnd")
  /\ (\E r \in rooms : r.status = "started")
       ~> (\E e \in published : e.type = "game-ended")

\* C22: a second run of the finalization for the same room creates no Score
\* row, and the game-ended payload it emits (leaderboard and winner) is the
\* payload of the first run
C22_SecondRunIsReplay ==
  [][\A t \in TaskIds :
       tasks[t].replay =>
         /\ scores' = scores
         /\ (tasks'[t].pc = "idle" => published' = { EvGameEnded(tasks[t].first) })]_vars

\* a second run is about to emit its payload for a room with a solve and a
\* winner, after a judge call of the first run
C22_Witness ==
  \E t \in TaskIds :
    /\ tasks[t].replay
    /\ tasks[t].pc = "aggregate"
    /\ tasks[t].first # << >>
    /\ \E r \in rooms : r.status = "ended" /\ Len(r.participants) = 2

\* C23: a check-problem by a user who already has a Score for the problem
\* publishes nothing to the room: no problem-solved, no leaderboard-update
C23_RepeatCheckIsPrivate ==
  [][\A t \in TaskIds :
       (/\ At(t, "check-problem", "findScore")
        /\ tasks'[t] # tasks[t]
        /\ ScoreRows(tasks[t].room.id, tasks[t].user, tasks[t].problem.contestId,
                     tasks[t].problem.index) # << >>)
         => \A e \in published' :
              e.to = "room" => e.type \notin { "problem-solved", "leaderboard-update" }]_vars

\* C24: a session has at most one check-problem in flight
C24_OneCheckPerSession ==
  \A t1, t2 \in TaskIds :
    (/\ tasks[t1].kind = "check-problem"
     /\ tasks[t2].kind = "check-problem"
     /\ tasks[t1].sock = tasks[t2].sock) => t1 = t2

\* C25: a check over the socket reaches the computation of its leaderboard
\* only in a step that publishes problem-solved for its user; a
\* leaderboard-update is published only by a check that has published
\* problem-solved (over HTTP: that emits it first in the same step); and
\* every problem-solved is followed by a leaderboard-update
C25_SolvedThenLeaderboard ==
  /\ [][\A t \in TaskIds :
         (/\ tasks[t].pc \notin { "leaderboardFindOne", "leaderboardAggregate", "leaderboardEmit" }
          /\ tasks'[t].pc \in { "leaderboardFindOne", "leaderboardAggregate", "leaderboardEmit" })
           => \E e \in published' : e.type = "problem-solved" /\ e.userId = tasks'[t].user]_vars
  /\ [][(\E e \in published' : e.type = "leaderboard-update") =>
           \/ \E e \in published' : e.type = "problem-solved"
           \/ \E t \in TaskIds :
                /\ tasks[t].pc \in { "leaderboardFindOne", "leaderboardAggregate", "leaderboardEmit" }
                /\ tasks'[t].pc = "idle"]_vars
  /\ (\E e \in published : e.type = "problem-solved")
       ~> (\E e \in published : e.type = "leaderboard-update")

\* a check over the socket has just published its leaderboard, with the solve
\* it found on it
C25_Witness ==
  /\ published = { EvLeaderboardUpdate(computeLeaderboard(FindRoom.id)) }
  /\ rooms # {}
  /\ Len(scores) = 1
  /\ ops = 4

\* start-game has failed at the judge call or at an empty half of the rating
\* range in the step now taken by handler t
StartFailed(t) ==
  /\ At(t, "start-game", "fetch")
  /\ tasks'[t].pc = "idle"

\* C26: a start-game handler begins by publishing game-starting; when it fails
\* at the judge call or at an empty half, the step stores nothing, arms no
\* timer and publishes only an error to the requester; a room it read as
\* waiting is then still waiting, without start time, problems or timer
C26_FailedStartChangesNothing ==
  /\ [][\A t \in TaskIds :
         (tasks[t].kind # "start-game" /\ tasks'[t].kind = "start-game")
           => published' = { Ev("game-starting") }]_vars
  /\ [][\A t \in TaskIds :
         StartFailed(t) =>
           /\ rooms' = rooms /\ roomProblems' = roomProblems
           /\ gameTimers' = gameTimers /\ activeGameRooms' = activeGameRooms
           /\ \E n \in { 422, 502 } : published' = { EvError(tasks[t].sock, n) }
           /\ tasks[t].room.status = "waiting" =>
                /\ \A r \in rooms' : r.status = "waiting" /\ r.startTime = NullTime
                /\ roomProblems' = << >>
                /\ ~gameTimers'.armed]_vars

\* start-game has just failed at an empty upper half of the range the host set
C26_Witness ==
  /\ \E s \in Sockets : published = { EvError(s, 422) }
  /\ \E r \in rooms : r.status = "waiting" /\ UpperHalf(r.minRating, r.maxRating) = {}
                       /\ Len(r.participants) = 2

\* C27: a start-game request for a room that is missing, not hosted by the
\* caller, short of two participants or not waiting changes neither the room
\* nor its problems nor the end timer, and publishes no game-started
C27_RejectedStartChangesNothing ==
  [][\A t \in TaskIds :
       (/\ tasks'[t] # tasks[t]
        /\ \/ tasks[t].kind = "start-game"
           \/ tasks'[t].kind = "start-game"
           \/ \E s \in Sockets, n \in { 404, 403, 400 } : EvError(s, n) \in published'
        /\ \/ rooms = {}
           \/ \E r \in rooms : \/ r.status # "waiting"
                                \/ Len(r.participants) < 2
                                \/ (tasks[t].kind = "start-game" /\ r.host # tasks[t].user))
         => /\ rooms' = rooms /\ roomProblems' = roomProblems
            /\ gameTimers' = gameTimers
            /\ \A e \in published' : e.type # "game-started"]_vars

\* C28: updateSettings goes on to its save only for the host of a waiting
\* room; the settings of a room change only in that save; and after it
\* questionCount and duration are 2 and 15
C28_SettingsOnlyByHostWhileWaiting ==
  /\ [][\A t \in TaskIds :
         (tasks[t].kind # "updateSettings" /\ tasks'[t].kind = "updateSettings")
           => \E r \in rooms : r.host = tasks'[t].user /\ r.status = "waiting"]_vars
  /\ [][\A r \in rooms, q \in rooms' :
         (q.id = r.id /\ SettingsOf(q) # SettingsOf(r))
           => /\ r.status = "waiting"
              /\ \E t \in TaskIds : /\ At(t, "updateSettings", "save")
                                     /\ tasks[t].user = r.host
                                     /\ tasks'[t].pc = "populateHost"]_vars
  /\ [][\A t \in TaskIds :
         (At(t, "updateSettings", "save") /\ tasks'[t].pc = "populateHost")
           => \A q \in rooms' : q.questionCount = 2 /\ q.duration = 15]_vars

\* the Score rows of the game in progress in room r: those solved after its
\* start time
CurrentScores(r) ==
  { k \in 1 .. Len(scores) : scores[k].roomId = r.id /\ scores[k].solvedAt > r.startTime }

\* C29: among the solves of a problem in a game, a later solve never earns
\* more; no solve earns less than the minPoints of its problem (or more than
\* its basePoints); and after a solve that earned minPoints every later solve
\* earns exactly minPoints
C29_PointsDecayToMin ==
  \A r \in rooms : \A a, b \in CurrentScores(r) :
    LET x == scores[a]
        y == scores[b]
        rows == ProblemRows(r.id, x.contestId, x.index)
    IN (rows # << >> /\ x.contestId = y.contestId /\ x.index = y.index
          /\ x.solvedAt <= y.solvedAt)
         => /\ x.points >= y.points
            /\ x.points >= rows[1].minPoints /\ x.points <= rows[1].basePoints
            /\ y.points >= rows[1].minPoints
            /\ (x.points = rows[1].minPoints => y.points = rows[1].minPoints)

\* one player solved a problem before its points had decayed to minPoints,
\* the other after
C29_Witness ==
  \E r \in rooms : \E a, b \in CurrentScores(r) :
    /\ scores[a].contestId = scores[b].contestId /\ scores[a].index = scores[b].index
    /\ scores[a].solvedAt < scores[b].solvedAt
    /\ scores[a].points > scores[b].points
    /\ \E row \in Range(roomProblems) :
         /\ row.contestId = scores[a].contestId /\ row.index = scores[a].index
         /\ scores[b].points = row.minPoints
         /\ scores[b].solvedAt - r.startTime > 50 * MsPerMinute

\* the handles in ascending order
HandleRank(h) == CHOOSE k \in 1 .. 3 : << "alice", "bob", "carol" >>[k] = h

\* the earliest solvedAt among the problemScores of a leaderboard entry
EarliestSolve(entry) ==
  CHOOSE n \in { entry.problemScores[k].solvedAt : k \in 1 .. Len(entry.problemScores) } :
    \A k \in 1 .. Len(entry.problemScores) : n <= entry.problemScores[k].solvedAt

\* entry x may stand before entry y: more points, or as many and an earlier
\* first solve, or both the same and a handle not after y's
MayPrecede(x, y) ==
  \/ x.totalPoints > y.totalPoints
  \/ /\ x.totalPoints = y.totalPoints
     /\ \/ EarliestSolve(x) < EarliestSolve(y)
        \/ /\ EarliestSolve(x) = EarliestSolve(y)
           /\ HandleRank(x.handle) <= HandleRank(y.handle)

\* C30: a published leaderboard is ordered by descending totalPoints, then
\* ascending earliest solvedAt, then ascending handle, and the problemScores
\* of each entry are in ascending order of solvedAt
C30_LeaderboardOrder ==
  \A e \in published :
    e.type \in { "leaderboard-update", "game-ended" } =>
      /\ \A i, j \in 1 .. Len(e.leaderboard) :
           i < j => MayPrecede(e.leaderboard[i], e.leaderboard[j])
      /\ \A i \in 1 .. Len(e.leaderboard) :
           LET ps == e.leaderboard[i].problemScores IN
             \A a, b \in 1 .. Len(ps) : a < b => ps[a].solvedAt <= ps[b].solvedAt

(***************************************************************************)
(* Properties of the scoring, the sweep and the stored rows.               *)
(***************************************************************************)
\* a Score row is inserted in the step now taken
ScoreInserted == Len(scores') = Len(scores) + 1

\* the rating the judge gives the problem (contestId, index)
RatingOf(contestId, index) ==
  (CHOOSE p \in JudgeProblems : p.contestId = contestId /\ p.index = index).rating

\* C31: whichever handler inserts a Score, its points are
\* max(basePoints - 5 * floor((solvedAt - startTime) / 60 s), minPoints), with
\* 500 and 250 for the problem of the lower half of the room's rating range
\* and 1000 and 500 for the problem of the upper half
C31_SamePointsOnEveryPath ==
  [][ScoreInserted =>
       LET row == scores'[Len(scores')] IN
         \E r \in rooms :
           /\ r.id = row.roomId
           /\ LET lower == RatingOf(row.contestId, row.index) <= (r.minRating + r.maxRating) \div 2
                  base == IF lower THEN 500 ELSE 1000
                  floor == IF lower THEN 250 ELSE 500
                  decayed == base - 5 * ((row.solvedAt - r.startTime) \div 60000)
              IN row.points = IF decayed >= floor THEN decayed ELSE floor]_vars

\* the sweep has just scored a solve of one player, after a check scored a
\* solve of the other
C31_Witness ==
  \E t \in TaskIds :
    /\ tasks[t].kind = "gameEnd" /\ tasks[t].pc # "create" /\ tasks[t].points > 0
    /\ Len(scores) = 2
    /\ scores[2].points = tasks[t].points
    /\ scores[2].userId = tasks[t].room.participants[tasks[t].i]
    /\ scores[1].userId # scores[2].userId

\* the submissions of the judge that count for a Score row of room r: of the
\* row's user and problem, accepted, stamped after the start of the game
Counting(row, r) ==
  { sub \in judgeSubs :
      /\ sub.handle = Handle(row.userId)
      /\ sub.contestId = row.contestId /\ sub.index = row.index
      /\ sub.verdict = "OK"
      /\ sub.creationTimeSeconds * 1000 > r.startTime }

\* C32: a Score inserted by check-problem is for a problem of the room, and
\* its solvedAt is the stamp of the earliest accepted submission of the user
\* for the problem made strictly after the start of the game
C32_EarliestAcceptedAfterStart ==
  [][(ScoreInserted /\ \E t \in TaskIds : At(t, "check-problem", "create")) =>
       LET row == scores'[Len(scores')] IN
         \E r \in rooms :
           /\ r.id = row.roomId
           /\ \E k \in 1 .. Len(roomProblems) :
                /\ roomProblems[k].roomId = r.id
                /\ roomProblems[k].contestId = row.contestId
                /\ roomProblems[k].index = row.index
           /\ row.solvedAt > r.startTime
           /\ \E sub \in Counting(row, r) :
                /\ row.solvedAt = sub.creationTimeSeconds * 1000
                /\ \A other \in Counting(row, r) :
                     sub.creationTimeSeconds <= other.creationTimeSeconds]_vars

\* a solve has been scored by its submission made after the start, while
\* the user also has an accepted submission stamped with the start time, and
\* the clock has moved on since the solve
C32_Witness ==
  /\ Len(scores) = 1
  /\ \E r \in rooms : \E sub \in judgeSubs :
       /\ sub.handle = Handle(scores[1].userId)
       /\ sub.contestId = scores[1].contestId /\ sub.index = scores[1].index
       /\ sub.verdict = "OK"
       /\ sub.creationTimeSeconds * 1000 = r.startTime
       /\ scores[1].solvedAt > r.startTime
       /\ scores[1].solvedAt < now

\* the submissions that count for user u and problem q in the sweep of room
\* r: accepted, stamped after the start and not after start + duration
InWindow(u, q, r) ==
  { sub \in judgeSubs :
      /\ sub.handle = Handle(u)
      /\ sub.contestId = q.contestId /\ sub.index = q.index
      /\ sub.verdict = "OK"
      /\ sub.creationTimeSeconds * 1000 > r.startTime
      /\ sub.creationTimeSeconds * 1000 <= r.startTime + 15 * 60000 }

\* user u has a Score for problem q in room r
Scored(u, q, r) ==
  \E k \in 1 .. Len(scores) :
    /\ scores[k].roomId = r.id /\ scores[k].userId = u
    /\ scores[k].contestId = q.contestId /\ scores[k].index = q.index

\* C33: a Score the sweep inserts is for a participant and a problem that had
\* none, at the stamp of the participant's earliest accepted submission in
\* (startTime, startTime + duration]; and when the sweep marks the room
\* ended, every participant has a Score for every problem of the room for
\* which such a submission exists
C33_SweepScoresTheWindow ==
  /\ [][(ScoreInserted /\ \E t \in TaskIds : At(t, "gameEnd", "create")) =>
         LET row == scores'[Len(scores')] IN
           \E r \in rooms :
             /\ r.id = row.roomId
             /\ ~Scored(row.userId, row, r)
             /\ \E sub \in InWindow(row.userId, row, r) :
                  /\ row.solvedAt = sub.creationTimeSeconds * 1000
                  /\ \A other \in InWindow(row.userId, row, r) :
                       sub.creationTimeSeconds <= other.creationTimeSeconds]_vars
  /\ [][\A t \in TaskIds :
         (At(t, "gameEnd", "save") /\ tasks'[t].pc = "aggregate") =>
           \A r \in rooms : \A k \in 1 .. Len(r.participants) :
             \A n \in 1 .. Len(roomProblems) :
               (roomProblems[n].roomId = r.id
                  /\ InWindow(r.participants[k], roomProblems[n], r) # {})
                 => Scored(r.participants[k], roomProblems[n], r)]_vars

\* the sweep has ended the game having scored a submission stamped with the
\* last instant of the game and left out one made after it
C33_Witness ==
  /\ \E t \in TaskIds : At(t, "gameEnd", "aggregate")
  /\ \E r \in rooms :
       /\ r.status = "ended"
       /\ \E k \in 1 .. Len(scores) : scores[k].solvedAt = r.startTime + DurationMs
       /\ \E sub \in judgeSubs :
            /\ sub.creationTimeSeconds * MsPerSecond > r.startTime + DurationMs
            /\ ~\E k \in 1 .. Len(scores) :
                  scores[k].userId = "u2" /\ scores[k].contestId = sub.contestId
                  /\ scores[k].index = sub.index

\* the sweep of task t is inside its loop, at the participant of index n
SweepingAt(t, n) ==
  /\ tasks[t].kind = "gameEnd" /\ tasks[t].i = n
  /\ tasks[t].pc \in { "fetch", "findScore", "create" }

\* C34: whatever happens while the sweep processes the participant of index
\* n (the judge fails or answers, a store call throws), the sweep stays with
\* that participant or goes on to the participant of index n + 1, whose judge
\* call follows the pause; after the last participant it saves the room, and
\* the save stores status ended
C34_FailureSkipsOneParticipant ==
  /\ [][\A t \in TaskIds : \A n \in 1 .. Len(tasks[t].room.participants) :
         (SweepingAt(t, n) /\ tasks'[t] # tasks[t]) =>
           LET count == Len(tasks[t].room.participants) IN
             \/ tasks'[t].i = n /\ tasks'[t].pc \in { "findScore", "create" }
             \/ n < count /\ tasks'[t].i = n + 1 /\ tasks'[t].pc = "delay"
             \/ n = count /\ tasks'[t].pc = "save"]_vars
  /\ [][\A t \in TaskIds :
         (At(t, "gameEnd", "delay") /\ tasks'[t] # tasks[t]) =>
           tasks'[t].pc = "fetch" /\ tasks'[t].i = tasks[t].i]_vars
  /\ [][\A t \in TaskIds :
         (At(t, "gameEnd", "save") /\ tasks'[t] # tasks[t]) =>
           \E r \in rooms' : r.id = tasks[t].room.id /\ r.status = "ended"]_vars

\* the sweep has ended the room having scored the second participant after
\* it had failed for the first, whose accepted submission stays unscored
C34_Witness ==
  /\ \E t \in TaskIds : At(t, "gameEnd", "aggregate")
  /\ \E r \in rooms :
       /\ r.status = "ended" /\ Len(r.participants) = 2
       /\ \E n \in 1 .. Len(roomProblems) :
            /\ InWindow(r.participants[1], roomProblems[n], r) # {}
            /\ ~Scored(r.participants[1], roomProblems[n], r)
       /\ \E k \in 1 .. Len(scores) : scores[k].userId = r.participants[2]

\* C35: every RoomProblem row and every Score row is of a room that the
\* store still holds
C35_RowsHaveTheirRoom ==
  /\ \A n \in 1 .. Len(roomProblems) : \E r \in rooms : r.id = roomProblems[n].roomId
  /\ \A k \in 1 .. Len(scores) : \E r \in rooms : r.id = scores[k].roomId

\* C36: when game-ended is published and the store still holds the room, the
\* stored status is ended; the winner of the event is the first entry of its
\* leaderboard, and none when the leaderboard is empty
C36_GameEndedMeansEnded ==
  \A e \in published :
    e.type = "game-ended" =>
      /\ \A r \in rooms : r.status = "ended"
      /\ e.winner = IF e.leaderboard = << >> THEN "" ELSE e.leaderboard[1].handle

\* C37: while the stored status of a room is ended, no step inserts a Score
\* for the room or publishes problem-solved, also when the handler taking
\* the step read the status before it became ended
C37_NothingScoredAfterEnd ==
  [][\A r \in rooms :
       r.status = "ended" =>
         /\ \A k \in 1 .. Len(scores') : scores'[k].roomId = r.id => k <= Len(scores)
         /\ \A e \in published' : e.type # "problem-solved"]_vars

\* the store holds no two Score rows of one user for one problem
NoTwin ==
  \A k, m \in 1 .. Len(scores) :
    (/\ scores[k].userId = scores[m].userId /\ scores[k].roomId = scores[m].roomId
     /\ scores[k].contestId = scores[m].contestId /\ scores[k].index = scores[m].index)
      => k = m

\* C38: when a step publishes leaderboard-update and leaves no check, over
\* the socket or over HTTP, in progress, the leaderboard published is the
\* projection of the Scores the store holds for the room (stated for stores
\* without a repeated Score, so that a failure is one of ordering alone)
C38_LastLeaderboardIsCurrent ==
  [][\A e \in published' :
       (/\ e.type = "leaderboard-update"
        /\ \A t \in TaskIds : tasks'[t].kind \notin { "check-problem", "checkSubmission" }
        /\ NoTwin')
         => \A r \in rooms' : e.leaderboard = computeLeaderboard(r.id)']_vars

\* C39: the participant list of a room holds each user at most once
C39_ParticipantsOnce ==
  \A r \in rooms : \A k, m \in 1 .. Len(r.participants) :
    r.participants[k] = r.participants[m] => k = m

\* C40: a Score is inserted only for a user who is then a participant of the
\* room, and problem-solved is published only for such a user
C40_ScoreOnlyForParticipants ==
  /\ [][ScoreInserted =>
         \E r \in rooms :
           /\ r.id = scores'[Len(scores')].roomId
           /\ \E k \in 1 .. Len(r.participants) :
                r.participants[k] = scores'[Len(scores')].userId]_vars
  /\ [][\A e \in published' :
         e.type = "problem-solved" =>
           \E r \in rooms : \E k \in 1 .. Len(r.participants) :
             r.participants[k] = e.userId]_vars

====
